---------------------------- MODULE Spec2Model ----------------------------
(***************************************************************************)
(* Model of the MPAS data converter (src/src/data_converter.py): the       *)
(* regular grid, the nearest-neighbour query, the inverse-distance         *)
(* weights, their application to fields, and convert_diag_file.            *)
(*                                                                         *)
(* Units.  A coordinate is an integer number of arc units, one arc unit    *)
(* being the angle that subtends 1e-5 km (one centimetre) on the sphere of *)
(* radius 6371 km the code uses (line 172).  All points of the model lie   *)
(* within a few hundred units of (0, 0), where the haversine distance of   *)
(* two points is, to double precision, the Euclidean distance of their     *)
(* coordinates.  Distances are carried as their squares, in units of       *)
(* 1e-10 km^2, so that every quantity is an exact integer: in this unit    *)
(* the 1e-10 of line 175 is 1.  max_dist_km is given in the same length    *)
(* unit (1e-5 km).  Floating-point quotients are exact rationals           *)
(* [num, den].                                                             *)
(***************************************************************************)
EXTENDS Integers, Sequences, FiniteSets, TLC

VARIABLES
    config,      \* the ConfigLoader's conversion.grid keys
    converter,   \* the MPASDataConverter's attributes
    static,      \* the static file: the mesh cells' (lat, lon)
    last         \* the latest convert_diag_file call: its inputs and outcome

vars == <<config, converter, static, last>>

\* ------------------------------------------------------------------------
\* Program constants

\* k of tree.query(grid_coords, k=3)
KNeighbors == 3

\* the 1e-10 km^2 of the weight denominator, in units of 1e-10 km^2
Epsilon == 1

\* ------------------------------------------------------------------------
\* Small helpers over sequences

Range(s) == {s[i] : i \in DOMAIN s}

Abs(x) == IF x < 0 THEN -x ELSE x

RECURSIVE SumSeq(_)
SumSeq(s) == IF s = <<>> THEN 0 ELSE Head(s) + SumSeq(Tail(s))

RECURSIVE Flatten(_)
Flatten(rows) == IF rows = <<>> THEN <<>> ELSE Head(rows) \o Flatten(Tail(rows))

MinOf(S) == CHOOSE x \in S : \A y \in S : x <= y

MaxOf(S) == CHOOSE x \in S : \A y \in S : x >= y

\* ------------------------------------------------------------------------
\* np.arange and the regular grid

\* number of elements of np.arange(start, stop, step), step # 0:
\* ceil((stop - start) / step), never negative
ArangeLen(start, stop, step) ==
    LET n == IF step > 0
             THEN (stop - start + step - 1) \div step
             ELSE (start - stop + (-step) - 1) \div (-step)
    IN  IF n > 0 THEN n ELSE 0

Arange(start, stop, step) ==
    [i \in 1..ArangeLen(start, stop, step) |-> start + (i - 1) * step]

\* _create_regular_grid: the two point sequences and their meshgrid.
\* np.arange raises on a zero step (ZeroDivisionError on integers, ValueError
\* on floats); a negative step is accepted.
CreateRegularGrid(lat_bounds, lon_bounds, lat_resolution, lon_resolution) ==
    IF lat_resolution = 0 \/ lon_resolution = 0
    THEN [ok |-> FALSE, error |-> "ZeroDivisionError or ValueError"]
    ELSE LET lat_points == Arange(lat_bounds[1], lat_bounds[2] + lat_resolution,
                                  lat_resolution)
             lon_points == Arange(lon_bounds[1], lon_bounds[2] + lon_resolution,
                                  lon_resolution)
         IN  [ok       |-> TRUE,
              lat_grid |-> [i \in DOMAIN lat_points |->
                               [j \in DOMAIN lon_points |-> lat_points[i]]],
              lon_grid |-> [i \in DOMAIN lat_points |->
                               [j \in DOMAIN lon_points |-> lon_points[j]]],
              shape    |-> <<Len(lat_points), Len(lon_points)>>]

\* ------------------------------------------------------------------------
\* The spatial index

\* a tree that indexes an empty array
BuildTreeAcceptingEmpty(lat_mpas, lon_mpas) ==
    [ok |-> TRUE,
     mpas_coords |-> [i \in DOMAIN lat_mpas |-> <<lat_mpas[i], lon_mpas[i]>>]]

\* _build_interpolation_tree: BallTree refuses an array with no samples.
BuildInterpolationTree(lat_mpas, lon_mpas) ==
    IF Len(lat_mpas) = 0
    THEN [ok |-> FALSE, error |-> "ValueError"]
    ELSE [ok |-> TRUE,
          mpas_coords |-> [i \in DOMAIN lat_mpas |-> <<lat_mpas[i], lon_mpas[i]>>]]

\* squared great-circle distance of two points, in units of 1e-10 km^2
DistSq(p, q) == (p[1] - q[1]) * (p[1] - q[1]) + (p[2] - q[2]) * (p[2] - q[2])

\* what the haversine formula takes off the squared distance of two points
\* away from the equator: sin^2(dlat/2) + cos(lat1) cos(lat2) sin^2(dlon/2)
\* weighs the longitude difference by cos(lat1) cos(lat2) < 1, that is by
\* 1 - (lat1^2 + lat2^2) / 2 to the leading order.  The amount is far below
\* one unit of DistSq and so it only orders cells that DistSq leaves level.
HaversineShortening(p, q) ==
    (p[2] - q[2]) * (p[2] - q[2]) * (p[1] * p[1] + q[1] * q[1])

\* the distance of cell i is less than the distance of cell j: less in
\* DistSq, or level in DistSq and shortened more by the haversine formula.
\* Two cells neither of which is nearer than the other are at the same
\* distance bit for bit.
Nearer(p, coords, i, j) ==
    \/ DistSq(p, coords[i]) < DistSq(p, coords[j])
    \/ /\ DistSq(p, coords[i]) = DistSq(p, coords[j])
       /\ HaversineShortening(p, coords[i]) > HaversineShortening(p, coords[j])

\* The query keeps, per query point, a max-heap of k slots that starts with
\* every slot at infinity (cell 0 here) and is offered the cells in the
\* order of their indices: a mesh of at most 40 cells is one leaf of the
\* tree.  Below is values[a] < values[b] for the cells a and b of two slots.
Below(p, coords, a, b) == a # 0 /\ (b = 0 \/ Nearer(p, coords, a, b))

\* heap_push, one step of the descent: the child that val changes places
\* with in the slot current, the larger of the two children (the left one
\* when they are level) if it is larger than val, or 0 when val stays
SwapSlot(p, coords, heap, current, val) ==
    IF 2 * current > Len(heap) THEN 0
    ELSE IF 2 * current + 1 > Len(heap)
    THEN (IF Below(p, coords, val, heap[2 * current]) THEN 2 * current ELSE 0)
    ELSE IF ~Below(p, coords, heap[2 * current], heap[2 * current + 1])
    THEN (IF Below(p, coords, val, heap[2 * current]) THEN 2 * current ELSE 0)
    ELSE (IF Below(p, coords, val, heap[2 * current + 1]) THEN 2 * current + 1 ELSE 0)

\* heap_push, the descent of val from the slot current
RECURSIVE HeapDescend(_, _, _, _, _, _)
HeapDescend(p, coords, heap, current, val, swap) ==
    IF swap = 0 THEN [heap EXCEPT ![current] = val]
    ELSE HeapDescend(p, coords, [heap EXCEPT ![current] = heap[swap]], swap, val,
                     SwapSlot(p, coords, [heap EXCEPT ![current] = heap[swap]],
                              swap, val))

\* heap_push: a cell that is not nearer than the farthest cell kept is
\* dropped, any other takes the place of the farthest
HeapPush(p, coords, heap, val) ==
    IF ~Below(p, coords, val, heap[1]) THEN heap
    ELSE HeapDescend(p, coords, heap, 1, val, SwapSlot(p, coords, heap, 1, val))

\* the heap of k slots after the cells 1..n were offered
RECURSIVE HeapAfter(_, _, _, _)
HeapAfter(p, coords, k, n) ==
    IF n = 0 THEN [slot \in 1..k |-> 0]
    ELSE HeapPush(p, coords, HeapAfter(p, coords, k, n - 1), n)

DualSwap(values, i, j) == [values EXCEPT ![i] = values[j], ![j] = values[i]]

\* if values[i] > values[j]: dual_swap(i, j)
CompareSwap(p, coords, values, i, j) ==
    IF Below(p, coords, values[j], values[i]) THEN DualSwap(values, i, j) ELSE values

\* if values[i] > values[j]: dual_swap(i, j), and then
\* if values[m] > values[n]: dual_swap(m, n)
MedianSwap(p, coords, values, i, j, m, n) ==
    IF Below(p, coords, values[j], values[i])
    THEN CompareSwap(p, coords, DualSwap(values, i, j), m, n)
    ELSE values

\* simultaneous_sort: the slots of the heap in ascending distance.  Up to
\* three slots are sorted by compare-and-swap, more of them by a quicksort
\* with a median-of-three pivot kept in the last slot: Partition is its
\* loop about the pivot, SortAbout sorts the two sides of the pivot.
\* Neither moves two level slots unless it has to, so level cells keep
\* the order the heap left them in.
RECURSIVE SimultaneousSort(_, _, _)
RECURSIVE Partition(_, _, _, _, _)
SortAbout(p, coords, values, at) ==
    (IF at - 1 > 1 THEN SimultaneousSort(p, coords, SubSeq(values, 1, at - 1))
     ELSE SubSeq(values, 1, at - 1))
    \o <<values[at]>>
    \o (IF at + 1 < Len(values)
        THEN SimultaneousSort(p, coords, SubSeq(values, at + 1, Len(values)))
        ELSE SubSeq(values, at + 1, Len(values)))

Partition(p, coords, values, i, store_idx) ==
    IF i > Len(values) - 1
    THEN SortAbout(p, coords, DualSwap(values, store_idx, Len(values)), store_idx)
    ELSE IF Below(p, coords, values[i], values[Len(values)])
    THEN Partition(p, coords, DualSwap(values, i, store_idx), i + 1, store_idx + 1)
    ELSE Partition(p, coords, values, i + 1, store_idx)

SimultaneousSort(p, coords, values) ==
    IF Len(values) <= 1 THEN values
    ELSE IF Len(values) = 2 THEN CompareSwap(p, coords, values, 1, 2)
    ELSE IF Len(values) = 3
    THEN MedianSwap(p, coords, CompareSwap(p, coords, values, 1, 2), 2, 3, 1, 2)
    ELSE Partition(p, coords,
                   MedianSwap(p, coords,
                              CompareSwap(p, coords, values, 1, Len(values)),
                              Len(values), (Len(values) \div 2) + 1, 1, Len(values)),
                   1, 1)

\* the k cells nearest to p, nearest first
NearestFrom(p, coords, k) ==
    LET heap == HeapAfter(p, coords, k, Len(coords))
    IN  SimultaneousSort(p, coords, [slot \in 1..k |-> heap[slot]])

\* tree.query(grid_coords, k): per query point the k nearest cells and
\* their distances, ascending.  The query refuses an empty batch and a k
\* larger than the number of cells.
TreeQuery(tree, grid_coords, k) ==
    IF Len(grid_coords) = 0 \/ k > Len(tree.mpas_coords)
    THEN [ok |-> FALSE, error |-> "ValueError"]
    ELSE LET idx == [g \in DOMAIN grid_coords |->
                        NearestFrom(grid_coords[g], tree.mpas_coords, k)]
         IN  [ok        |-> TRUE,
              indices   |-> idx,
              distances |-> [g \in DOMAIN grid_coords |->
                                [n \in 1..k |->
                                    DistSq(grid_coords[g],
                                           tree.mpas_coords[idx[g][n]])]]]

\* ------------------------------------------------------------------------
\* Weights

\* the weight without the 1e-10 of its denominator
RawWeightNoEpsilon(dist_sq) == [num |-> 1, den |-> dist_sq]

\* the weight with 1e-8 in place of the 1e-10 of its denominator
RawWeightLargeEpsilon(dist_sq) == [num |-> 1, den |-> dist_sq + 100]

\* 1.0 / (distances_km**2 + 1e-10), as the fraction 1 / den
RawWeight(dist_sq) == [num |-> 1, den |-> dist_sq + Epsilon]

\* the weights divided by the sum of the first two only
NormalizeByPartialSum(raw) ==
    [num |-> <<raw[2].den * raw[3].den, raw[1].den * raw[3].den,
               raw[1].den * raw[2].den>>,
     den |-> raw[2].den * raw[3].den + raw[1].den * raw[3].den]

\* weights / np.sum(weights, axis=1): the three quotients over their
\* common denominator.  With raw weights 1/D1, 1/D2, 1/D3 the k-th
\* normalized weight is (product of the other D) / (sum of such products).
NormalizeWeights(raw) ==
    LET P(n) == IF n = 1 THEN raw[2].den * raw[3].den
                ELSE IF n = 2 THEN raw[1].den * raw[3].den
                ELSE raw[1].den * raw[2].den
    IN  [num |-> [n \in 1..KNeighbors |-> P(n)],
         den |-> P(1) + P(2) + P(3)]

\* the least integer r with r * r >= n: the distance whose square is n,
\* rounded up to a whole unit
CeilSqrt(n) == CHOOSE r \in 0..n : r * r >= n /\ (r = 0 \/ (r - 1) * (r - 1) < n)

\* the mask with < in place of <=
ValidMaskStrict(dist_row, max_dist_km) == CeilSqrt(dist_row[1]) < max_dist_km

\* valid_mask = distances_km[:, 0] <= max_dist_km.  The threshold is a
\* whole number of units, so d <= max_dist_km exactly when ceil(d) is.
ValidMask(dist_row, max_dist_km) == CeilSqrt(dist_row[1]) <= max_dist_km

\* _build_interpolation_indices
BuildInterpolationIndices(tree, grid, max_dist_km) ==
    LET lat_flat == Flatten(grid.lat_grid)
        lon_flat == Flatten(grid.lon_grid)
        grid_coords == [g \in DOMAIN lat_flat |-> <<lat_flat[g], lon_flat[g]>>]
        q == TreeQuery(tree, grid_coords, KNeighbors)
    IN  IF ~q.ok THEN q
        ELSE [ok           |-> TRUE,
              indices      |-> q.indices,
              distances_km |-> q.distances,
              weights      |-> [g \in DOMAIN grid_coords |->
                                   NormalizeWeights(
                                       [n \in 1..KNeighbors |->
                                           RawWeight(q.distances[g][n])])],
              valid_mask   |-> [g \in DOMAIN grid_coords |->
                                   ValidMask(q.distances[g], max_dist_km)],
              grid_shape   |-> grid.shape]

\* ------------------------------------------------------------------------
\* Applying the weights

\* the missing sentinel (np.nan) and a finite quotient
NaN == [nan |-> TRUE, num |-> 0, den |-> 1]

Finite(n, d) == [nan |-> FALSE, num |-> n, den |-> d]

\* every index of the artifact addresses an element of an axis of length n
\* (numpy raises IndexError on data_mpas[indices] otherwise)
IndicesInRange(interp_data, n) ==
    \A g \in DOMAIN interp_data.indices :
        \A k \in 1..KNeighbors : interp_data.indices[g][k] <= n

\* the weighted sum without the mask
InterpolatePointUnmasked(interp_data, g, gathered) ==
    Finite(SumSeq([k \in 1..KNeighbors |->
                      gathered[k] * interp_data.weights[g].num[k]]),
           interp_data.weights[g].den)

\* np.sum(gathered * weights, axis=1) at grid point g, then
\* np.where(valid_mask, data_interp, np.nan); gathered is the row
\* data_mpas[indices][g] of the three neighbours' field values
InterpolatePoint(interp_data, g, gathered) ==
    IF interp_data.valid_mask[g]
    THEN Finite(SumSeq([k \in 1..KNeighbors |->
                           gathered[k] * interp_data.weights[g].num[k]]),
                interp_data.weights[g].den)
    ELSE NaN

\* a reshape that fills the grid column by column
FlatIndexColumnMajor(grid_shape, i, j) == (j - 1) * grid_shape[1] + i

\* data_interp.reshape(grid_shape): element [i, j] is the flat element
\* (i - 1) * columns + j
FlatIndex(grid_shape, i, j) == (i - 1) * grid_shape[2] + j

\* _interpolate_to_grid.  An array is [shape, data], data nested by axis.
InterpolateToGrid(interp_data, data_mpas) ==
    LET grid_shape == interp_data.grid_shape
        indices == interp_data.indices
    IN  IF ~IndicesInRange(interp_data, data_mpas.shape[1])
        THEN [ok |-> FALSE, error |-> "IndexError"]
        ELSE IF Len(data_mpas.shape) = 1
        THEN [ok    |-> TRUE,
              shape |-> grid_shape,
              data  |-> [i \in 1..grid_shape[1] |-> [j \in 1..grid_shape[2] |->
                            LET g == FlatIndex(grid_shape, i, j)
                            IN  InterpolatePoint(interp_data, g,
                                    [k \in 1..KNeighbors |->
                                        data_mpas.data[indices[g][k]]])]]]
        ELSE LET n_levels == data_mpas.shape[2]
             IN  [ok    |-> TRUE,
                  shape |-> grid_shape \o <<n_levels>>,
                  data  |-> [i \in 1..grid_shape[1] |-> [j \in 1..grid_shape[2] |->
                                [lev \in 1..n_levels |->
                                    LET g == FlatIndex(grid_shape, i, j)
                                    IN  InterpolatePoint(interp_data, g,
                                            [k \in 1..KNeighbors |->
                                                data_mpas.data[indices[g][k]][lev]])]]]]

\* ------------------------------------------------------------------------
\* The arrays of _interpolate_to_grid in memory.  A memory is a sequence of
\* array buffers; an array is referred to by the position of its buffer.

\* a result written over the buffer of the input field
ResultBufferInPlace(memory, data_ref) == data_ref

\* np.where (line 222) and np.zeros (line 229) return a new array: the
\* result's buffer is none of the buffers there were
ResultBuffer(memory, data_ref) == Len(memory) + 1

\* the memory with the array written to the buffer
WriteBuffer(memory, buffer, array) ==
    IF buffer > Len(memory) THEN Append(memory, array)
    ELSE [memory EXCEPT ![buffer] = array]

\* lines 210-213: the artifact's arrays as the function reads them
ReadArtifact(memory, interp_ref) ==
    [ok           |-> TRUE,
     indices      |-> memory[interp_ref.indices],
     distances_km |-> memory[interp_ref.distances_km],
     weights      |-> memory[interp_ref.weights],
     valid_mask   |-> memory[interp_ref.valid_mask],
     grid_shape   |-> interp_ref.grid_shape]

\* _interpolate_to_grid over the memory: the arrays are read, the result
\* is written to its buffer and a reference to it returned
InterpolateToGridInMemory(memory, interp_ref, data_ref) ==
    LET data_grid == InterpolateToGrid(ReadArtifact(memory, interp_ref),
                                       memory[data_ref])
    IN  IF ~data_grid.ok
        THEN [ok |-> FALSE, error |-> data_grid.error, memory |-> memory, ret |-> 0]
        ELSE [ok |-> TRUE, error |-> "",
              memory |-> WriteBuffer(memory, ResultBuffer(memory, data_ref),
                                     [shape |-> data_grid.shape, data |-> data_grid.data]),
              ret |-> ResultBuffer(memory, data_ref)]

\* the artifact and a field laid out in memory, and the weights applied to
\* the field twice
ApplyTwice(interp_data, data_mpas) ==
    LET memory == <<interp_data.indices, interp_data.distances_km,
                    interp_data.weights, interp_data.valid_mask, data_mpas>>
        interp_ref == [indices |-> 1, distances_km |-> 2, weights |-> 3,
                       valid_mask |-> 4, grid_shape |-> interp_data.grid_shape]
        first == InterpolateToGridInMemory(memory, interp_ref, 5)
    IN  [memory |-> memory, interp_ref |-> interp_ref, data_ref |-> 5,
         first |-> first,
         second |-> InterpolateToGridInMemory(first.memory, interp_ref, 5)]

\* ------------------------------------------------------------------------
\* Variable classification

VerticalDims ==
    <<"nVertLevels", "nVertLevelsP1", "nSoilLevels", "t_iso_levels", "nIsoLevelsT">>

SkipVars == {"xtime", "initial_time"}

HasVertical(var) == \E n \in DOMAIN VerticalDims : VerticalDims[n] \in Range(var.dims)

\* the members of a set of positions, in increasing order
RECURSIVE InOrder(_)
InOrder(S) == IF S = {} THEN <<>> ELSE <<MinOf(S)>> \o InOrder(S \ {MinOf(S)})

\* _detect_3d_variables: positions, in file order, of the selected variables
Detect3dVariables(ds) ==
    InOrder({n \in DOMAIN ds.vars :
                "nCells" \in Range(ds.vars[n].dims) /\ HasVertical(ds.vars[n])})

\* a 2D list that takes every variable over the mesh
Detect2dVariablesAnyLevels(ds) ==
    InOrder({n \in DOMAIN ds.vars :
                /\ ds.vars[n].name \notin SkipVars
                /\ "nCells" \in Range(ds.vars[n].dims)})

\* _detect_2d_variables
Detect2dVariables(ds) ==
    InOrder({n \in DOMAIN ds.vars :
                /\ ds.vars[n].name \notin SkipVars
                /\ "nCells" \in Range(ds.vars[n].dims)
                /\ ~HasVertical(ds.vars[n])})

\* ------------------------------------------------------------------------
\* convert_diag_file
\*
\* A variable of a diagnostic file is [name, dims, shape, data]; the Time
\* axis, when the variable has one, is its first axis.  A file is
\* [n_times, time_coord, vars]: the size of its Time dimension, whether Time
\* is a coordinate of the file, and its variables.

\* ConfigLoader.get: a key is unset (<<>>) or holds one value (<<v>>)
ConfigGet(cfg, key, default) == IF cfg[key] = <<>> THEN default ELSE cfg[key][1]

\* config.get('conversion.grid.max_dist_km', 30.0): 30 km in units of 1e-5 km
DefaultMaxDistKm == 3000000

\* var.isel(Time=t).values
IselTime(var, t) ==
    IF "Time" \notin Range(var.dims)
    THEN [ok |-> FALSE, error |-> "ValueError"]
    ELSE IF t > var.shape[1]
    THEN [ok |-> FALSE, error |-> "IndexError"]
    ELSE [ok |-> TRUE, shape |-> Tail(var.shape), data |-> var.data[t]]

\* the first failed step of a sequence of step results, 0 when none failed
FirstFailure(results) ==
    IF \A n \in DOMAIN results : results[n].ok THEN 0
    ELSE MinOf({n \in DOMAIN results : ~results[n].ok})

\* lines 629-630, 637-638, 653-654: one time step of a variable is read
\* and interpolated; an exception of either call ends the step
InterpolateTimeStep(interp_data, data_time) ==
    IF data_time.ok THEN InterpolateToGrid(interp_data, data_time) ELSE data_time

\* line 655, data_grid[t, :, :] = data_interp: numpy refuses a slice of
\* another shape than the grid's
Store2d(grid_shape, data_interp) ==
    IF ~data_interp.ok THEN data_interp
    ELSE IF data_interp.shape # grid_shape
    THEN [ok |-> FALSE, error |-> "ValueError"]
    ELSE [ok |-> TRUE, data |-> data_interp.data]

\* the slice of a time step stored as interpolated, its level axis last
Store3dLevelLast(grid_shape, n_levels, data_interp) ==
    IF ~data_interp.ok THEN data_interp
    ELSE [ok |-> TRUE, data |-> data_interp.data]

\* lines 631-632, data_grid[t, lev, :, :] = data_interp[:, :, lev] for
\* every level of the variable's vertical dimension
Store3d(grid_shape, n_levels, data_interp) ==
    IF ~data_interp.ok THEN data_interp
    ELSE IF Len(data_interp.shape) # 3
    THEN [ok |-> FALSE, error |-> "IndexError"]
    ELSE IF n_levels > data_interp.shape[3]
    THEN [ok |-> FALSE, error |-> "IndexError"]
    ELSE [ok   |-> TRUE,
          data |-> [lev \in 1..n_levels |->
                       [i \in 1..grid_shape[1] |->
                           [j \in 1..grid_shape[2] |-> data_interp.data[i][j][lev]]]]]

\* the loop over time steps: the first exception ends it, otherwise the
\* steps are the variable's gridded array
StackTimeSteps(steps, shape) ==
    IF FirstFailure(steps) # 0
    THEN [ok |-> FALSE, error |-> steps[FirstFailure(steps)].error]
    ELSE [ok |-> TRUE, shape |-> shape, data |-> [t \in DOMAIN steps |-> steps[t].data]]

\* lines 647-657: one 2D variable, every time step
Convert2dVariable(interp_data, var, n_times) ==
    StackTimeSteps(
        [t \in 1..n_times |->
            Store2d(interp_data.grid_shape,
                    InterpolateTimeStep(interp_data, IselTime(var, t)))],
        <<n_times>> \o interp_data.grid_shape)

\* lines 608-615: the variable's first recognised vertical dimension and
\* its size
VertDimSize(var) ==
    LET vd == MinOf({n \in DOMAIN VerticalDims : VerticalDims[n] \in Range(var.dims)})
        ax == CHOOSE a \in DOMAIN var.dims : var.dims[a] = VerticalDims[vd]
    IN  var.shape[ax]

\* lines 605-642: one 3D variable, every time step and level
Convert3dVariable(interp_data, var, n_times) ==
    StackTimeSteps(
        [t \in 1..n_times |->
            Store3d(interp_data.grid_shape, VertDimSize(var),
                    InterpolateTimeStep(interp_data, IselTime(var, t)))],
        <<n_times, VertDimSize(var)>> \o interp_data.grid_shape)

\* lines 618-624: the level coordinate, taken from the first 3D variable
\* (None is <<>>, a coordinate is <<values>>)
LevelsOf(ds, vars_3d) ==
    IF vars_3d = <<>> THEN <<>>
    ELSE <<[l \in 1..VertDimSize(ds.vars[vars_3d[1]]) |-> l]>>

\* _create_cf_compliant_dataset: xarray refuses a variable whose level
\* axis disagrees with the level coordinate
CreateCfCompliantDataset(data_dict, grid, n_times, levels) ==
    IF \E v \in DOMAIN data_dict :
          Len(data_dict[v].shape) = 4 /\ data_dict[v].shape[2] # Len(levels[1])
    THEN [ok |-> FALSE, error |-> "ValueError"]
    ELSE [ok        |-> TRUE,
          time      |-> n_times,
          lat       |-> [i \in 1..grid.shape[1] |-> grid.lat_grid[i][1]],
          lon       |-> grid.lon_grid[1],
          level     |-> levels,
          dims      |-> [v \in DOMAIN data_dict |->
                            IF Len(data_dict[v].shape) = 3
                            THEN <<"time", "lat", "lon">>
                            ELSE <<"time", "level", "lat", "lon">>],
          data_vars |-> data_dict]

\* the datasets a call leaves open: ds_diag and ds_static are opened first
\* (lines 540-541) and closed after _save_netcdf only (lines 672-674), which
\* the early return of line 575 and the handler of line 680 do not reach
OpenDatasets(stage) ==
    IF stage \in {"none", "save", "done"} THEN {} ELSE {"ds_diag", "ds_static"}

\* what a call leaves behind: its return value, the exception it caught,
\* the step that ended it, the grid and the weights it built, the dict of
\* gridded variables and the dataset it wrote to the output file
NoGrid == [ok |-> FALSE, error |-> "not created"]

NoInterp == [ok |-> FALSE, error |-> "not built"]

NoData == [v \in {} |-> v]

NoDataset == [ok |-> FALSE, error |-> "not written"]

Outcome(ret, error, stage, grid, interp_data, data_dict, written) ==
    [ret |-> ret, error |-> error, stage |-> stage, grid |-> grid,
     interp_data |-> interp_data, data_dict |-> data_dict, written |-> written,
     open |-> OpenDatasets(stage)]

\* lines 558-565: the grid, the tree over the mesh and the weights, built
\* in this order; an exception of one step ends the sequence
BuildWeights(lat_bounds, lon_bounds, lat_resolution, lon_resolution, mesh, max_dist_km) ==
    LET lat_mpas == [c \in DOMAIN mesh |-> mesh[c][1]]
        lon_mpas == [c \in DOMAIN mesh |-> mesh[c][2]]
        grid == CreateRegularGrid(lat_bounds, lon_bounds,
                                  lat_resolution, lon_resolution)
        tree == BuildInterpolationTree(lat_mpas, lon_mpas)
        interp_data == BuildInterpolationIndices(tree, grid, max_dist_km)
    IN  IF ~grid.ok
        THEN [ok |-> FALSE, error |-> grid.error, stage |-> "grid",
              grid |-> NoGrid, interp_data |-> NoInterp]
        ELSE IF ~tree.ok
        THEN [ok |-> FALSE, error |-> tree.error, stage |-> "tree",
              grid |-> grid, interp_data |-> NoInterp]
        ELSE IF ~interp_data.ok
        THEN [ok |-> FALSE, error |-> interp_data.error, stage |-> "query",
              grid |-> grid, interp_data |-> NoInterp]
        ELSE [ok |-> TRUE, error |-> "", stage |-> "built",
              grid |-> grid, interp_data |-> interp_data]

\* lines 543-565: the weights a call applies are built in that call, from
\* the static file's coordinates and the configuration as they are now.
\* The defaults lat_mpas.min() ... are evaluated whether or not the key is
\* set, and raise on an empty array.
InterpDataForCall(cfg, lat_resolution, lon_resolution, mesh) ==
    LET lat_mpas == [c \in DOMAIN mesh |-> mesh[c][1]]
        lon_mpas == [c \in DOMAIN mesh |-> mesh[c][2]]
        lat_bounds == <<ConfigGet(cfg, "lat_min", MinOf(Range(lat_mpas))),
                        ConfigGet(cfg, "lat_max", MaxOf(Range(lat_mpas)))>>
        lon_bounds == <<ConfigGet(cfg, "lon_min", MinOf(Range(lon_mpas))),
                        ConfigGet(cfg, "lon_max", MaxOf(Range(lon_mpas)))>>
        max_dist_km == ConfigGet(cfg, "max_dist_km", DefaultMaxDistKm)
    IN  IF mesh = <<>>
        THEN [ok |-> FALSE, error |-> "ValueError", stage |-> "bounds",
              grid |-> NoGrid, interp_data |-> NoInterp]
        ELSE BuildWeights(lat_bounds, lon_bounds, lat_resolution, lon_resolution,
                          mesh, max_dist_km)

\* the loop over variables: the first exception ends it; data_dict holds
\* the variables converted before it
CollectVariables(names, results) ==
    [ok        |-> FirstFailure(results) = 0,
     error     |-> IF FirstFailure(results) = 0 THEN ""
                   ELSE results[FirstFailure(results)].error,
     data_dict |-> [v \in {names[n] : n \in {m \in DOMAIN results :
                                  FirstFailure(results) = 0 \/ m < FirstFailure(results)}} |->
                       LET n == CHOOSE m \in DOMAIN names : names[m] = v
                       IN  [shape |-> results[n].shape, data |-> results[n].data]]]

\* lines 583-598: the number of time steps that are converted, the length
\* of xtime, else of the Time coordinate, else the one dummy time step of a
\* file that has neither
NTimes(ds) ==
    IF \E n \in DOMAIN ds.vars : ds.vars[n].name = "xtime"
    THEN ds.vars[CHOOSE n \in DOMAIN ds.vars : ds.vars[n].name = "xtime"].shape[1]
    ELSE IF ds.time_coord THEN ds.n_times
    ELSE 1

\* lines 604-660: the selected variables in processing order (3D first),
\* each converted in turn
ConvertVariables(interp_data, ds, vars_3d, vars_2d, n_times) ==
    CollectVariables(
        [n \in 1..(Len(vars_3d) + Len(vars_2d)) |->
            ds.vars[(vars_3d \o vars_2d)[n]].name],
        [n \in 1..(Len(vars_3d) + Len(vars_2d)) |->
            IF n <= Len(vars_3d)
            THEN Convert3dVariable(interp_data, ds.vars[vars_3d[n]], n_times)
            ELSE Convert2dVariable(interp_data, ds.vars[vars_2d[n - Len(vars_3d)]],
                                   n_times)])

\* lines 662-678: the dataset is assembled and saved
SaveConverted(built, converted, ds_output, save_ok) ==
    IF ~converted.ok
    THEN Outcome(FALSE, converted.error, "variables", built.grid, built.interp_data,
                 converted.data_dict, NoDataset)
    ELSE IF ~ds_output.ok
    THEN Outcome(FALSE, ds_output.error, "dataset", built.grid, built.interp_data,
                 converted.data_dict, NoDataset)
    ELSE IF ~save_ok
    THEN Outcome(FALSE, "", "save", built.grid, built.interp_data,
                 converted.data_dict, NoDataset)
    ELSE Outcome(TRUE, "", "done", built.grid, built.interp_data,
                 converted.data_dict, ds_output)

\* lines 568-660: the variables are detected and converted
ConvertDetected(built, ds_diag, vars_3d, vars_2d, converted, save_ok) ==
    IF Len(vars_3d) + Len(vars_2d) = 0
    THEN Outcome(FALSE, "", "detect", built.grid, built.interp_data, NoData, NoDataset)
    ELSE SaveConverted(built, converted,
                       CreateCfCompliantDataset(converted.data_dict, built.grid,
                                                NTimes(ds_diag),
                                                LevelsOf(ds_diag, vars_3d)),
                       save_ok)

\* lines 568-683 of convert_diag_file, with the weights `built`
ConvertSelected(built, ds_diag, vars_3d, vars_2d, save_ok) ==
    ConvertDetected(built, ds_diag, vars_3d, vars_2d,
                    ConvertVariables(built.interp_data, ds_diag, vars_3d, vars_2d,
                                     NTimes(ds_diag)),
                    save_ok)

\* lines 539-683 of convert_diag_file once the weights are built or have
\* failed to be
ConvertWith(built, ds_diag, save_ok) ==
    IF ~built.ok
    THEN Outcome(FALSE, built.error, built.stage, built.grid, NoInterp,
                 NoData, NoDataset)
    ELSE ConvertSelected(built, ds_diag, Detect3dVariables(ds_diag),
                         Detect2dVariables(ds_diag), save_ok)

\* convert_diag_file, from opening the files to the return
ConvertDiagFile(cfg, lat_resolution, lon_resolution, mesh, ds_diag, save_ok) ==
    ConvertWith(InterpDataForCall(cfg, lat_resolution, lon_resolution, mesh),
                ds_diag, save_ok)

\* ------------------------------------------------------------------------
\* The slices of a conversion.  A slice is one level of one time step of one
\* variable, <<variable, t, lev>> with lev = 0 for a variable without
\* levels; an output element is <<variable, t, lev, i, j>>.

\* the slices of the loops of lines 604-657
ConversionSlices(ds) ==
    UNION {{<<n, t, lev>> : t \in 1..NTimes(ds), lev \in 1..VertDimSize(ds.vars[n])} :
              n \in Range(Detect3dVariables(ds))}
    \cup {<<n, t, 0>> : n \in Range(Detect2dVariables(ds)), t \in 1..NTimes(ds)}

\* a slice that writes every level of its time step
SliceRegionAllLevels(grid_shape, n_levels, sl) ==
    {<<sl[1], sl[2], lev, i, j>> :
        lev \in (IF sl[3] = 0 THEN {0} ELSE 1..n_levels),
        i \in 1..grid_shape[1], j \in 1..grid_shape[2]}

\* data_grid[t, lev, :, :] (line 632) and data_grid[t, :, :] (line 655):
\* the output elements the slice writes
SliceRegion(grid_shape, n_levels, sl) ==
    {<<sl[1], sl[2], sl[3], i, j>> : i \in 1..grid_shape[1], j \in 1..grid_shape[2]}

\* data_mpas[indices, lev] (line 233) and data_mpas[indices] (line 219):
\* the values over the mesh that the slice reads
SliceField(var, t, lev) ==
    [shape |-> <<var.shape[2]>>,
     data  |-> [c \in 1..var.shape[2] |->
                   IF lev = 0 THEN var.data[t][c] ELSE var.data[t][c][lev]]]

\* np.zeros (lines 626, 648): the output before any slice; no element
\* written, no slice done
SlicesStarted(interp_data, ds) ==
    LET elements == {<<sl[1], sl[2], sl[3], i, j>> :
                        sl \in ConversionSlices(ds),
                        i \in 1..interp_data.grid_shape[1],
                        j \in 1..interp_data.grid_shape[2]}
    IN  [interp_data |-> interp_data,
         done        |-> {},
         data_grid   |-> [e \in elements |-> Finite(0, 1)],
         writes      |-> [e \in elements |-> 0]]

\* one slice: interpolated from the weights (lines 231-239, 216-225) and
\* stored in its region of the output
AfterSlice(c, ds, sl) ==
    LET var == ds.vars[sl[1]]
        region == SliceRegion(c.interp_data.grid_shape,
                              IF sl[3] = 0 THEN 0 ELSE VertDimSize(var), sl)
        data_interp == InterpolateToGrid(c.interp_data, SliceField(var, sl[2], sl[3]))
    IN  [c EXCEPT !.done = @ \cup {sl},
                  !.data_grid = [e \in DOMAIN @ |->
                                    IF e \in region THEN data_interp.data[e[4]][e[5]]
                                    ELSE @[e]],
                  !.writes = [e \in DOMAIN @ |->
                                 IF e \in region THEN @[e] + 1 ELSE @[e]]]

\* ------------------------------------------------------------------------
\* Reading the static file
\*
\* latCell and lonCell are stored in radians; here a stored angle is the
\* fraction [num, den] of pi it is, and an angle in degrees is an integer.

\* np.degrees(x): x * 180 / pi
Degrees(rad) == (180 * rad.num) \div rad.den

\* np.radians(d): d * pi / 180
Radians(deg) == [num |-> deg, den |-> 180]

\* lines 543-544: the cells' coordinates in degrees, as stored
ReadCellCoordinates(lat_cell, lon_cell) ==
    [lat_mpas |-> [c \in DOMAIN lat_cell |-> Degrees(lat_cell[c])],
     lon_mpas |-> [c \in DOMAIN lon_cell |-> Degrees(lon_cell[c])]]

\* lines 547-554: the grid bounds, each from the configuration or, when
\* the key is unset, from the cells' coordinates
GridBounds(cfg, lat_mpas, lon_mpas) ==
    [lat_bounds |-> <<ConfigGet(cfg, "lat_min", MinOf(Range(lat_mpas))),
                      ConfigGet(cfg, "lat_max", MaxOf(Range(lat_mpas)))>>,
     lon_bounds |-> <<ConfigGet(cfg, "lon_min", MinOf(Range(lon_mpas))),
                      ConfigGet(cfg, "lon_max", MaxOf(Range(lon_mpas)))>>]

\* lines 127-132: the rows (lat_rad, lon_rad) the BallTree is built on
TreeCoordinates(lat_mpas, lon_mpas) ==
    [c \in DOMAIN lat_mpas |-> <<Radians(lat_mpas[c]), Radians(lon_mpas[c])>>]

\* lines 543-560: what convert_diag_file derives from the static file up
\* to the construction of the tree
IndexedStatic(cfg, lat_cell, lon_cell) ==
    [lat_mpas    |-> ReadCellCoordinates(lat_cell, lon_cell).lat_mpas,
     lon_mpas    |-> ReadCellCoordinates(lat_cell, lon_cell).lon_mpas,
     bounds      |-> GridBounds(cfg, ReadCellCoordinates(lat_cell, lon_cell).lat_mpas,
                                ReadCellCoordinates(lat_cell, lon_cell).lon_mpas),
     mpas_coords |-> TreeCoordinates(ReadCellCoordinates(lat_cell, lon_cell).lat_mpas,
                                     ReadCellCoordinates(lat_cell, lon_cell).lon_mpas)]

\* ------------------------------------------------------------------------
\* convert_all_diag_files
\*
\* A run directory is a set of entries [stem, stamp, ds]: the file
\* <stem>.<stamp>.nc and the dataset it holds.  Stamps are the fixed-width
\* time stamps of the file names, so the order of the names is the order of
\* the stamps.

\* sorted(run_dir.glob("diag.*.nc")): the stamps of the diag files, ascending
SortedDiagFiles(run_dir) == InOrder({e.stamp : e \in {d \in run_dir : d.stem = "diag"}})

\* the dataset of the diag file of the given stamp
DiagDataset(run_dir, stamp) ==
    (CHOOSE e \in run_dir : e.stem = "diag" /\ e.stamp = stamp).ds

\* a convert_diag_file call runs tree.query (line 169) once, unless it
\* ended before: deriving the bounds, creating the grid or building the tree
QueryRuns(outcome) == IF outcome.stage \in {"bounds", "grid", "tree"} THEN 0 ELSE 1

\* a batch whose neighbour query ran for its first file only
BatchQueriesCached(calls) ==
    IF \E n \in DOMAIN calls : QueryRuns(calls[n]) = 1 THEN 1 ELSE 0

\* the number of neighbour queries of the calls of a batch
BatchQueries(calls) == SumSeq([n \in DOMAIN calls |-> QueryRuns(calls[n])])

\* a loop that ends at the first file that fails
CallsUntilFailure(calls) ==
    IF FirstFailure([n \in DOMAIN calls |-> [ok |-> calls[n].ret]]) = 0 THEN calls
    ELSE SubSeq(calls, 1, FirstFailure([n \in DOMAIN calls |-> [ok |-> calls[n].ret]]))

\* lines 719-727: the loop calls convert_diag_file for every file in turn,
\* whatever the earlier calls returned
CallsOfLoop(calls) == calls

\* lines 716-746: success_count, failed_files and the return value
BatchResult(diag_files, calls) ==
    [ret          |-> diag_files # <<>> /\ \A n \in DOMAIN calls : calls[n].ret,
     diag_files   |-> diag_files,
     calls        |-> calls,
     failed_files |-> InOrder({diag_files[n] : n \in {m \in DOMAIN calls : ~calls[m].ret}}),
     queries      |-> BatchQueries(calls)]

\* convert_all_diag_files: every diag file of the run directory, in the
\* order of the names, each by its own convert_diag_file call
ConvertAllDiagFiles(cfg, lat_resolution, lon_resolution, mesh, run_dir) ==
    BatchResult(SortedDiagFiles(run_dir),
                CallsOfLoop([n \in 1..Len(SortedDiagFiles(run_dir)) |->
                    ConvertDiagFile(cfg, lat_resolution, lon_resolution, mesh,
                                    DiagDataset(run_dir, SortedDiagFiles(run_dir)[n]),
                                    TRUE)]))

\* ------------------------------------------------------------------------
\* main.py: the steps of the pipeline

\* the steps in the order of their blocks in main (lines 73-117)
PipelineOrder == <<"download", "wps", "init", "boundary", "run", "convert">>

\* the position of a step in that order
StepIndex(name) == CHOOSE n \in DOMAIN PipelineOrder : PipelineOrder[n] = name

\* `if args.step in [name, 'all']`
StepSelected(step, name) == step \in {name, "all"}

\* the first selected step from position n on, "done" when there is none:
\* main falls through the blocks of the steps that are not selected
NextSelected(step, n) ==
    IF \E m \in n..Len(PipelineOrder) : StepSelected(step, PipelineOrder[m])
    THEN PipelineOrder[MinOf({m \in n..Len(PipelineOrder) :
                                StepSelected(step, PipelineOrder[m])})]
    ELSE "done"

\* a pipeline that goes on whatever a step returned
StepFailedIgnored(name, result) == FALSE

\* `if not <step>(...): sys.exit(1)` for the first five steps; the return
\* value of convert_all_diag_files (line 115) is not looked at
StepFailed(name, result) == result = "False" /\ name # "convert"

\* the state of main after lines 46-70: the position, the steps started,
\* what they returned and the exit status (-1 while main runs)
MainStarted(step) ==
    [pc |-> NextSelected(step, 1), started |-> <<>>, returns |-> <<>>, exit |-> -1]

\* the block of a step: the step is called and returns True or False or
\* raises; a failure exits with status 1 (lines 78, 85, 92, 99, 106), an
\* exception is caught at line 123 and exits with status 1 (line 127);
\* after the last selected block main returns and the status is 0
MainAfterStep(m, step, name, result) ==
    LET started == Append(m.started, name)
        returns == Append(m.returns, result)
        next == NextSelected(step, StepIndex(name) + 1)
    IN  IF result = "raise" \/ StepFailed(name, result)
        THEN [pc |-> "exit", started |-> started, returns |-> returns, exit |-> 1]
        ELSE [pc |-> next, started |-> started, returns |-> returns,
              exit |-> IF next = "done" THEN 0 ELSE -1]

\* lines 108-117 when conversion.enabled is false: no step is called
MainConversionDisabled(m) ==
    [pc |-> "done", started |-> m.started, returns |-> m.returns, exit |-> 0]

\* ------------------------------------------------------------------------
\* model_runner.py: run_model with its SLURM job.  A text is a sequence of
\* characters, an output a sequence of lines.

\* `needle in text`
Contains(needle, text) ==
    \E i \in 0..(Len(text) - Len(needle)) : SubSeq(text, i + 1, i + Len(needle)) = needle

\* result.stdout.strip().split('\n')[0].strip(): the first line, empty
\* when there is no output
FirstLine(stdout) == IF stdout = <<>> THEN <<>> ELSE stdout[1]

Completed == <<"C", "O", "M", "P", "L", "E", "T", "E", "D">>

Completing == <<"C", "O", "M", "P", "L", "E", "T", "I", "N", "G">>

Pending == <<"P", "E", "N", "D", "I", "N", "G">>

Running == <<"R", "U", "N", "N", "I", "N", "G">>

Failed == <<"F", "A", "I", "L", "E", "D">>

Cancelled == <<"C", "A", "N", "C", "E", "L", "L", "E", "D">>

\* the states of a job that is waiting or running
ActiveStates == {Pending, Running, Completing}

\* the states a job ends in
FinalStates == {Completed, Failed, Cancelled}

\* no job
NoJob == [id |-> "", state |-> <<>>, listed |-> FALSE]

\* a wait that takes every job that left the queue for a successful one
FinalStatusAny(final_status) == TRUE

\* line 539: 'COMPLETED' in final_status
FinalStatusCompleted(final_status) == Contains(Completed, final_status)

\* _submit_slurm_job, lines 475-501, on the outcome of sbatch: a return
\* code and the lines of stdout as words, or an exception
SubmitSlurmJob(sbatch) ==
    IF sbatch.raises \/ sbatch.returncode # 0
    THEN [success |-> FALSE, job_id |-> ""]
    ELSE IF \E n \in DOMAIN sbatch.stdout :
                Contains(<<"Submitted", "batch", "job">>, sbatch.stdout[n])
    THEN LET line == sbatch.stdout[MinOf({n \in DOMAIN sbatch.stdout :
                         Contains(<<"Submitted", "batch", "job">>, sbatch.stdout[n])})]
         IN  [success |-> TRUE, job_id |-> line[Len(line)]]
    ELSE [success |-> TRUE, job_id |-> ""]

\* what `squeue -j job_id -h -o %T` prints: the state of the job of that
\* ID while the controller lists it, nothing for any other ID
SqueueStdout(job, job_id) ==
    IF job.id = job_id /\ job.listed THEN <<job.state>> ELSE <<>>

\* what `sacct -j job_id -n -o State` prints: the state of the job, then
\* the states of its steps
SacctStdout(job, job_id, steps) ==
    IF job.id = job_id /\ job.state # <<>> THEN <<job.state>> \o steps ELSE <<>>

\* run_model (lines 681-775) as a process: its position, its return value,
\* the result of the submission, the final status it read, the job and the
\* output files of the run directory
RunModelStarted(backend, files) ==
    [pc |-> "setup", ret |-> "none", backend |-> backend,
     submit |-> [success |-> FALSE, job_id |-> ""], submitted |-> FALSE,
     final_status |-> <<"unread">>, job |-> NoJob, files |-> files]

\* run_model returns
Returned(r, value) == [r EXCEPT !.pc = "returned", !.ret = value]

\* lines 696-722: physics validation, links, namelist, streams; then the
\* backend is chosen (lines 725-760)
AfterSetup(r, outcome) ==
    IF outcome # "ok" THEN Returned(r, "False")
    ELSE IF r.backend = "mpirun" THEN [r EXCEPT !.pc = "mpirun"]
    ELSE IF r.backend = "slurm" THEN [r EXCEPT !.pc = "submit"]
    ELSE Returned(r, "False")

\* lines 739-752: the job is submitted; sbatch with return code 0 has
\* queued a job.  Without success or without a job ID run_model returns
\* False, otherwise it waits for the job.
AfterSubmit(r, sbatch, true_id) ==
    LET submit == SubmitSlurmJob(sbatch)
        job == IF ~sbatch.raises /\ sbatch.returncode = 0
               THEN [id |-> true_id, state |-> Pending, listed |-> TRUE]
               ELSE NoJob
        s == [r EXCEPT !.submit = submit, !.submitted = TRUE, !.job = job]
    IN  IF ~submit.success \/ submit.job_id = "" THEN Returned(s, "False")
        ELSE [s EXCEPT !.pc = "squeue"]

\* lines 519-533 and 556-572: squeue is run; empty output sends the wait to
\* sacct, a state or an exception makes it sleep and poll again
AfterSqueue(r, outcome) ==
    IF outcome = "raises" THEN r
    ELSE IF outcome = "error" \/ SqueueStdout(r.job, r.submit.job_id) = <<>>
    THEN [r EXCEPT !.pc = "sacct"]
    ELSE r

\* lines 535-547 and 566-572: sacct is run and the first line read; the
\* wait returns True on a status that contains COMPLETED, and run_model
\* goes on to the output files; on any other status run_model returns
\* False; an exception makes the wait sleep and poll again
AfterSacct(r, outcome, steps) ==
    LET final_status == IF outcome = "empty" THEN <<>>
                        ELSE FirstLine(SacctStdout(r.job, r.submit.job_id, steps))
    IN  IF outcome = "raises" THEN [r EXCEPT !.pc = "squeue"]
        ELSE IF FinalStatusCompleted(final_status)
        THEN [r EXCEPT !.pc = "output", !.final_status = final_status]
        ELSE Returned([r EXCEPT !.final_status = final_status], "False")

\* lines 728-735: the mpirun backend.  subprocess.run (lines 636-643) blocks
\* while the program runs in the run directory, so the files the program
\* wrote are there when the call is back, whatever its exit status.
AfterMpirun(r, ok, written) ==
    IF ok THEN [r EXCEPT !.pc = "output", !.files = @ \cup written]
    ELSE Returned([r EXCEPT !.files = @ \cup written], "False")

\* lines 762-772: the output files of the run directory
AfterOutputCheck(r) ==
    IF r.files = {} THEN Returned(r, "False") ELSE Returned(r, "True")

\* ------------------------------------------------------------------------
\* data_downloader.py: the GFS files of a forecast.  A directory maps the
\* expected files, numbered in the order of their forecast hours, to their
\* sizes in bytes, -1 for a file that does not exist.

\* _download_file's default max_retries
MaxRetries == 3

\* `filepath.exists() and filepath.stat().st_size > 0` (line 289)
ExistsNonEmpty(dir, f) == dir[f] > 0

\* int(response.headers.get('content-length', 0)) (line 187)
TotalSize(response) == ConfigGet(response, "content_length", 0)

\* line 204: filepath.stat().st_size == total_size, after the body was
\* written to the file
SizeVerified(response) == response.body = TotalSize(response)

\* a wait after every failed attempt
WaitAfterEvery(attempt) == 2 ^ attempt

\* lines 218-221 and 230-233: the seconds slept after a failed attempt,
\* none after the last one
WaitAfter(attempt) == IF attempt < MaxRetries THEN 2 ^ attempt ELSE 0

\* verify_downloads: the files that are missing or empty, in the order of
\* the forecast hours
VerifyDownloads(dir) == InOrder({f \in DOMAIN dir : dir[f] = -1 \/ dir[f] = 0})

\* download_gfs_data as a process: the file of the loop, the attempt of
\* _download_file, the directory, the counters, the GET requests made for
\* each file and, for each attempt, whether the size was verified and the
\* seconds slept after it
DownloadStarted(dir) ==
    [pc |-> "loop", i |-> 1, attempt |-> 0, dir |-> dir,
     success_count |-> 0, skipped_count |-> 0, failed_files |-> <<>>,
     requests |-> [f \in DOMAIN dir |-> 0],
     attempts |-> [f \in DOMAIN dir |-> <<>>], ret |-> "none", missing |-> <<>>]

\* lines 288-294: a file that exists with size > 0 is skipped
AfterSkip(d) ==
    [d EXCEPT !.i = @ + 1, !.success_count = @ + 1, !.skipped_count = @ + 1]

\* one attempt of _download_file (lines 177-234) for the file of the loop.
\* A request that fails leaves no file; a response is written to the file
\* and the size compared; after the last attempt the file is a failed file
\* (lines 298-301).
AfterAttempt(d, response) ==
    LET f == d.i
        verified == ~response.error /\ SizeVerified(response)
        asked == [d EXCEPT !.requests[f] = @ + 1,
                           !.attempts[f] = Append(@, [verified |-> verified,
                                                      slept |-> IF verified THEN 0
                                                                ELSE WaitAfter(d.attempt)])]
    IN  IF verified
        THEN [asked EXCEPT !.dir[f] = response.body, !.i = @ + 1, !.attempt = 0,
                           !.success_count = @ + 1]
        ELSE IF d.attempt < MaxRetries
        THEN [asked EXCEPT !.dir[f] = -1, !.attempt = @ + 1]
        ELSE [asked EXCEPT !.dir[f] = -1, !.i = @ + 1, !.attempt = 0,
                           !.failed_files = Append(@, f)]

\* lines 303-329: the report and the return value; then verify_downloads
\* on the same directory
AfterLoop(d) ==
    [d EXCEPT !.pc = "returned",
              !.ret = IF Len(d.failed_files) = 0 THEN "True" ELSE "False",
              !.missing = VerifyDownloads(d.dir)]

\* ------------------------------------------------------------------------
\* Bounds of the model

MaxTimes == 2

MaxLevels == 2

MaxFieldCells == 5

\* the cell counts of the fields: fewer cells than the meshes have, as many, more
FieldCells == 2..MaxFieldCells

MaxValue == 3

\* the diag files of a run directory
MaxFiles == 3

\* the files of a forecast
MaxForecastFiles == 2

\* the bytes of a file
MaxBytes == 2

\* ------------------------------------------------------------------------
\* Inputs

\* cell positions: within 71 cm of one another
MeshA == <<<<0, 0>>, <<50, 0>>, <<0, 50>>>>

MeshB == <<<<0, 0>>, <<1, 0>>, <<50, 0>>, <<50, 50>>>>

Positions == {<<0, 0>>, <<1, 0>>, <<45, 0>>, <<50, 0>>, <<0, 50>>, <<50, 50>>}

\* position p precedes position q
Before(p, q) == p[1] < q[1] \/ (p[1] = q[1] /\ p[2] < q[2])

\* the static files of the wide specification: no cell, two cells, four
\* cells, meshes with coincident cells, and every mesh of three cells at
\* distinct positions in increasing order
WideMeshes ==
    {<<>>, <<<<0, 0>>, <<50, 0>>>>, MeshB,
     <<<<50, 50>>, <<0, 0>>, <<0, 0>>>>, <<<<0, 0>>, <<0, 0>>, <<0, 0>>, <<50, 0>>>>}
    \cup {m \in Positions \X Positions \X Positions :
             Before(m[1], m[2]) /\ Before(m[2], m[3])}

Config(lat_min, lat_max, lon_min, lon_max, max_dist_km, res) ==
    [lat_min |-> lat_min, lat_max |-> lat_max, lon_min |-> lon_min,
     lon_max |-> lon_max, max_dist_km |-> max_dist_km, resolution |-> res]

WideConfigs ==
    {Config(<<0>>, lat_max, <<0>>, lon_max, max_dist_km, res) :
        lat_max \in {<<>>, <<50>>}, lon_max \in {<<0>>, <<50>>},
        max_dist_km \in {<<>>, <<0>>, <<1>>, <<45>>, <<50>>},
        res \in {<<-50>>, <<0>>, <<50>>}}

\* field values: a ramp over cells, time steps and levels, or a constant
RampValue(t, c, lev) == ((c + t + lev - 3) % MaxValue) + 1

Var2d(name, n_cells, n_times, ramp) ==
    [name  |-> name,
     dims  |-> <<"Time", "nCells">>,
     shape |-> <<n_times, n_cells>>,
     data  |-> [t \in 1..n_times |-> [c \in 1..n_cells |->
                   IF ramp THEN RampValue(t, c, 1) ELSE MaxValue]]]

Var3d(name, n_cells, n_levels, n_times) ==
    [name  |-> name,
     dims  |-> <<"Time", "nCells", "nVertLevels">>,
     shape |-> <<n_times, n_cells, n_levels>>,
     data  |-> [t \in 1..n_times |-> [c \in 1..n_cells |->
                   [lev \in 1..n_levels |-> RampValue(t, c, lev)]]]]

\* a 3D variable stored with its level axis before its mesh axis, whose
\* values differ when cell and level are exchanged
Var3dLevelFirst(name, n_cells, n_levels, n_times) ==
    [name  |-> name,
     dims  |-> <<"Time", "nVertLevels", "nCells">>,
     shape |-> <<n_times, n_levels, n_cells>>,
     data  |-> [t \in 1..n_times |-> [lev \in 1..n_levels |->
                   [c \in 1..n_cells |-> RampValue(t, c, 2 * lev)]]]]

\* a variable of the given dimensions, two or three of them
FieldVar(name, dims, shape) ==
    [name  |-> name,
     dims  |-> dims,
     shape |-> shape,
     data  |-> [t \in 1..shape[1] |-> [c \in 1..shape[2] |->
                   IF Len(shape) = 2 THEN RampValue(t, c, 1)
                   ELSE [lev \in 1..shape[3] |-> RampValue(t, c, lev)]]]]

\* a variable over the mesh that has no Time dimension
StaticVar(name, n_cells) ==
    [name  |-> name,
     dims  |-> <<"nCells">>,
     shape |-> <<n_cells>>,
     data  |-> [c \in 1..n_cells |-> RampValue(1, c, 1)]]

XtimeVar(n_times) ==
    [name |-> "xtime", dims |-> <<"Time", "StrLen">>, shape |-> <<n_times, 1>>,
     data |-> [t \in 1..n_times |-> <<t>>]]

VarsOf(n_cells, n_times) ==
    {Var2d("t2m", n_cells, n_times, TRUE), Var2d("mslp", n_cells, n_times, FALSE),
     Var3d("theta", n_cells, MaxLevels, n_times)}

\* a file as MPAS writes it: xtime beside the fields, Time no coordinate
DiagFile(n_times, spatial) ==
    [n_times |-> n_times, time_coord |-> FALSE,
     vars |-> <<XtimeVar(n_times)>> \o spatial]

\* a file without xtime, with or without a Time coordinate
FileWithoutXtime(n_times, time_coord, spatial) ==
    [n_times |-> n_times, time_coord |-> time_coord, vars |-> spatial]

\* files for the classification of variables: a variable over the mesh
\* named initial_time, alone and before a 2D variable; a variable with a
\* vertical dimension and no mesh dimension; a variable over soil levels;
\* a variable over the mesh without a Time dimension; two variables with
\* vertical dimensions of different sizes
ClassificationFiles ==
    UNION {{DiagFile(1, <<FieldVar("initial_time", <<"Time", "nCells">>, <<1, n>>)>>),
            DiagFile(1, <<FieldVar("initial_time", <<"Time", "nCells">>, <<1, n>>),
                          Var2d("t2m", n, 1, TRUE)>>),
            DiagFile(1, <<FieldVar("zgrid", <<"Time", "nVertLevels">>, <<1, MaxLevels>>),
                          Var2d("t2m", n, 1, TRUE)>>),
            DiagFile(1, <<FieldVar("tslb", <<"Time", "nCells", "nSoilLevels">>,
                                   <<1, n, MaxLevels>>),
                          Var2d("mslp", n, 1, FALSE)>>),
            DiagFile(1, <<Var2d("t2m", n, 1, TRUE), StaticVar("ter", n)>>),
            DiagFile(1, <<Var3d("theta", n, MaxLevels, 1),
                          FieldVar("w", <<"Time", "nCells", "nVertLevelsP1">>,
                                   <<1, n, MaxLevels + 1>>)>>)} : n \in {3, 4}}

\* the diagnostic files: no spatial variable, one spatial variable of any
\* cell count and number of time steps (a 3D one in either axis order),
\* two of different names at one time step, or one spatial variable of any
\* number of time steps in a file without xtime
DiagFiles ==
    {DiagFile(1, <<>>)}
    \cup UNION {{FileWithoutXtime(n_times, time_coord, <<v>>) :
                    v \in {Var2d("t2m", n, n_times, TRUE),
                           Var3d("theta", n, MaxLevels, n_times)}, time_coord \in BOOLEAN} :
                   n \in {3, 4}, n_times \in 1..MaxTimes}
    \cup ClassificationFiles
    \cup UNION {{DiagFile(n_times, <<v>>) : v \in VarsOf(n, n_times)} :
                   n \in FieldCells, n_times \in 1..MaxTimes}
    \cup {DiagFile(n_times, <<Var3dLevelFirst("qv", n, MaxLevels + 1, n_times)>>) :
              n \in FieldCells, n_times \in 1..MaxTimes}
    \cup UNION {{DiagFile(1, <<p[1], p[2]>>) :
                    p \in {q \in VarsOf(n[1], 1) \X VarsOf(n[2], 1) :
                               q[1].name # q[2].name}} :
                   n \in {2, 3} \X {2, 3}}

\* the diagnostic files the program converts: fields of four cells, a 2D
\* variable alone, or a 3D and a 2D variable
ProgramFiles ==
    {DiagFile(1, <<Var2d("t2m", 4, 1, TRUE)>>),
     DiagFile(1, <<Var3d("theta", 4, MaxLevels, 1), Var2d("mslp", 4, 1, FALSE)>>)}

\* the diagnostic files of the run directories: a 2D variable, a 2D variable
\* with fewer cells than any mesh, no spatial variable, a 3D and a 2D variable
BatchFiles ==
    <<DiagFile(1, <<Var2d("t2m", 4, 1, TRUE)>>),
      DiagFile(1, <<Var2d("t2m", 2, 1, TRUE)>>),
      DiagFile(1, <<>>),
      DiagFile(1, <<Var3d("theta", 4, MaxLevels, 1), Var2d("mslp", 4, 1, FALSE)>>)>>

\* the run directories: each stamp names no diag file or one of the files
\* above, beside a history file or none
RunDirs ==
    {{[stem |-> "diag", stamp |-> k, ds |-> BatchFiles[ch[k]]] :
          k \in {n \in 1..MaxFiles : ch[n] # 0}}
      \cup (IF h THEN {[stem |-> "history", stamp |-> 1, ds |-> BatchFiles[1]]} ELSE {}) :
        ch \in [1..MaxFiles -> 0..Len(BatchFiles)], h \in BOOLEAN}

\* angles a static file stores: latitudes from pole to pole, longitudes
\* over the full turn [0, 2 pi) MPAS uses
CellLatitudes == {[num |-> -1, den |-> 2], [num |-> 0, den |-> 1], [num |-> 1, den |-> 2]}

CellLongitudes ==
    {[num |-> 0, den |-> 1], [num |-> 1, den |-> 2], [num |-> 1, den |-> 1],
     [num |-> 3, den |-> 2], [num |-> 35, den |-> 18]}

\* the static files read in radians: one cell or two, as [latCell, lonCell]
RadianStaticFiles ==
    {[latCell |-> <<la>>, lonCell |-> <<lo>>] : la \in CellLatitudes, lo \in CellLongitudes}
    \cup {[latCell |-> <<la[1], la[2]>>, lonCell |-> <<lo[1], lo[2]>>] :
             la \in CellLatitudes \X CellLatitudes, lo \in CellLongitudes \X CellLongitudes}

\* ------------------------------------------------------------------------
\* State and operations

\* __init__: the resolution is read once, when the converter is built
\* the values of --step
StepChoices == Range(PipelineOrder) \cup {"all"}

\* what a step does: it returns True, returns False or raises
StepResults == {"True", "False", "raise"}

\* what sbatch does: it fails, times out, queues the job and prints its
\* ID (after a warning line or not, followed by the cluster's name or not),
\* or queues the job and prints no ID
SbatchResults ==
    {[raises |-> TRUE, returncode |-> 0, stdout |-> <<>>],
     [raises |-> FALSE, returncode |-> 1, stdout |-> <<>>],
     [raises |-> FALSE, returncode |-> 0, stdout |-> <<>>],
     [raises |-> FALSE, returncode |-> 0,
      stdout |-> <<<<"Submitted", "batch", "job", "4711">>>>],
     [raises |-> FALSE, returncode |-> 0,
      stdout |-> <<<<"sbatch:", "warning">>, <<"Submitted", "batch", "job", "4711">>>>],
     [raises |-> FALSE, returncode |-> 0,
      stdout |-> <<<<"Submitted", "batch", "job", "4711", "on", "cluster", "hpc">>>>]}

\* the execution backends of the configuration
Backends == {"slurm", "mpirun", "local"}

\* the output files a run directory can hold
OutputKinds == {"diag", "history"}

\* the output directories before a download: every expected file is
\* missing, empty or of some size
OutputDirs ==
    UNION {[1..n -> {-1, 0, MaxBytes}] : n \in 1..MaxForecastFiles}

\* what a GET request brings: an error, or a body of some bytes under a
\* content-length header or none
Responses ==
    {[error |-> TRUE, content_length |-> <<>>, body |-> 0]}
    \cup {[error |-> FALSE, content_length |-> h, body |-> b] :
             h \in {<<>>} \cup {<<n>> : n \in {0, MaxBytes}}, b \in 0..MaxBytes}

\* the files whose slices are followed: a variable with levels and one
\* without, over three or four cells and MaxTimes time steps
SliceFiles ==
    {DiagFile(MaxTimes, <<Var3d("theta", n, MaxLevels, MaxTimes),
                          Var2d("t2m", n, MaxTimes, TRUE)>>) : n \in {3, 4}}

\* the fields the weights are applied to: one time step over 2 to
\* MaxFieldCells cells, without levels and with MaxLevels levels
MeshFields ==
    {[shape |-> <<n>>, data |-> [c \in 1..n |-> RampValue(1, c, 1)]] : n \in FieldCells}
    \cup {[shape |-> <<n, MaxLevels>>,
           data  |-> [c \in 1..n |-> [lev \in 1..MaxLevels |-> RampValue(1, c, lev)]]] :
              n \in FieldCells}

\* the configurations of the applications: every grid and threshold at 50 km
ApplyConfigs == {c \in WideConfigs : c.resolution = <<50>>}

\* the static files of the applications
ApplyMeshes == {MeshA, MeshB, <<<<0, 0>>, <<0, 0>>, <<0, 0>>, <<50, 0>>>>}

\* config.get('conversion.grid.resolution', 0.25): a quarter of a degree of
\* arc is 0.25 * 6371 * pi / 180 = 27.79873 km, in units of 1e-5 km
DefaultResolution == 2779873

NewConverter(cfg) ==
    LET resolution == ConfigGet(cfg, "resolution", DefaultResolution)
    IN  [lat_resolution |-> resolution, lon_resolution |-> resolution]

\* no call yet
NoCall ==
    [op |-> "none", static |-> <<>>, config |-> <<>>, args |-> <<>>,
     out |-> Outcome(FALSE, "", "none", NoGrid, NoInterp, NoData, NoDataset)]

\* a conversion that keeps the weights of the previous call when it built any
ConvertReusingWeights(ds_diag, save_ok) ==
    /\ last' = [op |-> "convert", static |-> static, config |-> config,
                args |-> <<ds_diag, save_ok>>,
                out |-> ConvertWith(
                            IF last.out.interp_data.ok
                            THEN [ok |-> TRUE, error |-> "", stage |-> "built",
                                  grid |-> last.out.grid,
                                  interp_data |-> last.out.interp_data]
                            ELSE InterpDataForCall(config, converter.lat_resolution,
                                                   converter.lon_resolution, static),
                            ds_diag, save_ok)]
    /\ UNCHANGED <<config, converter, static>>

\* convert_diag_file(diag_file, static_file, output_file); save_ok is
\* whether the output file can be written
Convert(ds_diag, save_ok) ==
    /\ last' = [op |-> "convert", static |-> static, config |-> config,
                args |-> <<ds_diag, save_ok>>,
                out |-> ConvertDiagFile(config, converter.lat_resolution,
                                        converter.lon_resolution, static,
                                        ds_diag, save_ok)]
    /\ UNCHANGED <<config, converter, static>>

\* _create_regular_grid, _build_interpolation_tree and
\* _build_interpolation_indices called on the static file's cells with
\* the given bounds and threshold
Build(lat_bounds, lon_bounds, max_dist_km) ==
    /\ last' = [op |-> "build", static |-> static, config |-> config,
                args |-> <<lat_bounds, lon_bounds, max_dist_km>>,
                out |-> LET built == BuildWeights(lat_bounds, lon_bounds,
                                         converter.lat_resolution,
                                         converter.lon_resolution,
                                         static, max_dist_km)
                        IN  Outcome(built.ok, built.error, built.stage, built.grid,
                                    built.interp_data, NoData, NoDataset)]
    /\ UNCHANGED <<config, converter, static>>

\* ConfigLoader.set on one of the keys convert_diag_file reads at each call
ConfigSet(key, value) ==
    /\ config' = [config EXCEPT ![key] = <<value>>]
    /\ UNCHANGED <<converter, static, last>>

\* the static file is replaced by another mesh
ReplaceStatic(mesh) ==
    /\ static' = mesh
    /\ UNCHANGED <<config, converter, last>>

\* convert_all_diag_files(run_dir, static_file)
ConvertAll(run_dir) ==
    /\ last' = [op |-> "batch", static |-> static, config |-> config,
                args |-> <<run_dir>>,
                out |-> ConvertAllDiagFiles(config, converter.lat_resolution,
                                            converter.lon_resolution, static, run_dir)]
    /\ UNCHANGED <<config, converter, static>>

\* the static file is opened and indexed: lines 541-560 of convert_diag_file
IndexStaticFile(ds_static) ==
    /\ last' = [op |-> "index", static |-> static, config |-> config,
                args |-> <<ds_static>>,
                out |-> IndexedStatic(config, ds_static.latCell, ds_static.lonCell)]
    /\ UNCHANGED <<config, converter, static>>

\* the weights of the configuration and the static file, applied to a field
ApplyWeights(data_mpas) ==
    LET built == InterpDataForCall(config, converter.lat_resolution,
                                   converter.lon_resolution, static)
    IN  /\ built.ok
        /\ last' = [op |-> "apply", static |-> static, config |-> config,
                    args |-> <<data_mpas>>,
                    out |-> ApplyTwice(built.interp_data, data_mpas)]
        /\ UNCHANGED <<config, converter, static>>

\* main up to line 70: arguments parsed, configuration loaded
MainBegin(step, conversion_enabled, verbose) ==
    /\ last.op = "none"
    /\ last' = [op |-> "main", static |-> static, config |-> config,
                args |-> <<step, conversion_enabled, verbose>>,
                out |-> MainStarted(step)]
    /\ UNCHANGED <<config, converter, static>>

\* the block of one of the first five steps
MainStep(name, result) ==
    /\ last.op = "main"
    /\ last.out.pc = name
    /\ last' = [last EXCEPT !.out = MainAfterStep(last.out, last.args[1], name, result)]
    /\ UNCHANGED <<config, converter, static>>

\* the block of the conversion step
MainConvert(result) ==
    /\ last.op = "main"
    /\ last.out.pc = "convert"
    /\ last' = [last EXCEPT !.out =
                    IF last.args[2]
                    THEN MainAfterStep(last.out, last.args[1], "convert", result)
                    ELSE MainConversionDisabled(last.out)]
    /\ UNCHANGED <<config, converter, static>>

\* run_model is called on a run directory
RunModelBegin(backend, files) ==
    /\ last.op = "none"
    /\ last' = [op |-> "run_model", static |-> static, config |-> config,
                args |-> <<backend, files>>,
                out |-> RunModelStarted(backend, files)]
    /\ UNCHANGED <<config, converter, static>>

RunModelSetup(outcome) ==
    /\ last.op = "run_model" /\ last.out.pc = "setup"
    /\ last' = [last EXCEPT !.out = AfterSetup(last.out, outcome)]
    /\ UNCHANGED <<config, converter, static>>

RunModelSubmit(sbatch) ==
    /\ last.op = "run_model" /\ last.out.pc = "submit"
    /\ last' = [last EXCEPT !.out = AfterSubmit(last.out, sbatch, "4711")]
    /\ UNCHANGED <<config, converter, static>>

RunModelSqueue(outcome) ==
    /\ last.op = "run_model" /\ last.out.pc = "squeue"
    /\ last' = [last EXCEPT !.out = AfterSqueue(last.out, outcome)]
    /\ UNCHANGED <<config, converter, static>>

RunModelSacct(outcome, steps) ==
    /\ last.op = "run_model" /\ last.out.pc = "sacct"
    /\ last' = [last EXCEPT !.out = AfterSacct(last.out, outcome, steps)]
    /\ UNCHANGED <<config, converter, static>>

RunModelMpirun(ok, written) ==
    /\ last.op = "run_model" /\ last.out.pc = "mpirun"
    /\ last' = [last EXCEPT !.out = AfterMpirun(last.out, ok, written)]
    /\ UNCHANGED <<config, converter, static>>

RunModelOutputCheck ==
    /\ last.op = "run_model" /\ last.out.pc = "output"
    /\ last' = [last EXCEPT !.out = AfterOutputCheck(last.out)]
    /\ UNCHANGED <<config, converter, static>>

\* the cluster: a pending job starts or is cancelled, a running job writes
\* output and ends, a job that ended is dropped from the controller's list
JobStep(state) ==
    /\ last.op = "run_model"
    /\ \/ last.out.job.state = Pending /\ state \in {Running, Cancelled}
       \/ last.out.job.state = Running /\ state \in {Completing, Failed, Cancelled}
       \/ last.out.job.state = Completing /\ state \in {Completed, Failed}
    /\ last' = [last EXCEPT !.out.job.state = state]
    /\ UNCHANGED <<config, converter, static>>

JobWritesOutput(kind) ==
    /\ last.op = "run_model"
    /\ last.out.job.state = Running
    /\ kind \notin last.out.files
    /\ last' = [last EXCEPT !.out.files = @ \cup {kind}]
    /\ UNCHANGED <<config, converter, static>>

JobPurged ==
    /\ last.op = "run_model"
    /\ last.out.job.state \in FinalStates
    /\ last.out.job.listed
    /\ last' = [last EXCEPT !.out.job.listed = FALSE]
    /\ UNCHANGED <<config, converter, static>>

\* download_gfs_data is called on an output directory
DownloadBegin(dir) ==
    /\ last.op = "none"
    /\ last' = [op |-> "download", static |-> static, config |-> config,
                args |-> <<dir>>, out |-> DownloadStarted(dir)]
    /\ UNCHANGED <<config, converter, static>>

DownloadSkip ==
    /\ last.op = "download" /\ last.out.pc = "loop"
    /\ last.out.i \in DOMAIN last.out.dir
    /\ last.out.attempt = 0
    /\ ExistsNonEmpty(last.out.dir, last.out.i)
    /\ last' = [last EXCEPT !.out = AfterSkip(last.out)]
    /\ UNCHANGED <<config, converter, static>>

DownloadAttempt(response) ==
    /\ last.op = "download" /\ last.out.pc = "loop"
    /\ last.out.i \in DOMAIN last.out.dir
    /\ last.out.attempt > 0 \/ ~ExistsNonEmpty(last.out.dir, last.out.i)
    /\ last' = [last EXCEPT !.out = AfterAttempt(last.out, response)]
    /\ UNCHANGED <<config, converter, static>>

DownloadReturn ==
    /\ last.op = "download" /\ last.out.pc = "loop"
    /\ last.out.i \notin DOMAIN last.out.dir
    /\ last' = [last EXCEPT !.out = AfterLoop(last.out)]
    /\ UNCHANGED <<config, converter, static>>

\* a conversion that succeeds begins: the weights are built and the output
\* arrays allocated
SlicesBegin(ds_diag) ==
    LET built == InterpDataForCall(config, converter.lat_resolution,
                                   converter.lon_resolution, static)
    IN  /\ last.op = "none"
        /\ ConvertDiagFile(config, converter.lat_resolution, converter.lon_resolution,
                           static, ds_diag, TRUE).ret
        /\ last' = [op |-> "slices", static |-> static, config |-> config,
                    args |-> <<ds_diag>>,
                    out |-> SlicesStarted(built.interp_data, ds_diag)]
        /\ UNCHANGED <<config, converter, static>>

\* a slice that was not processed yet is processed
ProcessSlice(sl) ==
    /\ last.op = "slices"
    /\ sl \in ConversionSlices(last.args[1]) \ last.out.done
    /\ last' = [last EXCEPT !.out = AfterSlice(last.out, last.args[1], sl)]
    /\ UNCHANGED <<config, converter, static>>

\* The program: a converter over a small configuration, whose grid bounds,
\* max_dist_km and static file change between conversions.
Init ==
    /\ config = Config(<<0>>, <<>>, <<0>>, <<50>>, <<>>, <<50>>)
    /\ converter = NewConverter(config)
    /\ static \in {MeshA, MeshB}
    /\ last = NoCall

Next ==
    \/ \E ds_diag \in ProgramFiles, save_ok \in BOOLEAN : Convert(ds_diag, save_ok)
    \/ \E lat_max \in {0, 50} : Build(<<0, lat_max>>, <<0, 50>>, 50)
    \/ \E value \in {0, 50} : ConfigSet("lat_max", value)
    \/ \E value \in {0, 50} : ConfigSet("max_dist_km", value)
    \/ \E mesh \in {MeshA, MeshB} : ReplaceStatic(mesh)

Spec == Init /\ [][Next]_vars

\* The converter's functions over wide inputs: every mesh, grid and
\* threshold of the input sets, every diagnostic file, one call per input.
InitWide ==
    /\ config \in WideConfigs
    /\ converter = NewConverter(config)
    /\ static \in WideMeshes
    /\ last = NoCall

NextWide ==
    \/ /\ last.op = "none"
       /\ \E ds_diag \in DiagFiles : Convert(ds_diag, TRUE)
    \/ /\ last.op = "none"
       /\ \E lat_max \in {0, 50}, lon_max \in {0, 50}, max_dist_km \in {0, 50} :
             Build(<<0, lat_max>>, <<0, lon_max>>, max_dist_km)

SpecWide == InitWide /\ [][NextWide]_vars

\* Batches: one convert_all_diag_files call per run directory, over a static
\* file of no cell, three cells or four.
InitBatch ==
    /\ config = Config(<<0>>, <<50>>, <<0>>, <<50>>, <<45>>, <<50>>)
    /\ converter = NewConverter(config)
    /\ static \in {<<>>, MeshA, MeshB}
    /\ last = NoCall

NextBatch ==
    /\ last.op = "none"
    /\ \E run_dir \in RunDirs : ConvertAll(run_dir)

SpecBatch == InitBatch /\ [][NextBatch]_vars

\* Applications of weights: one artifact per configuration and static
\* file, applied to one field.
InitApply ==
    /\ config \in ApplyConfigs
    /\ converter = NewConverter(config)
    /\ static \in ApplyMeshes
    /\ last = NoCall

NextApply ==
    /\ last.op = "none"
    /\ \E data_mpas \in MeshFields : ApplyWeights(data_mpas)

SpecApply == InitApply /\ [][NextApply]_vars

\* Runs of main: every value of --step, conversion enabled or not, every
\* outcome of every step.
InitMain ==
    /\ config = Config(<<0>>, <<50>>, <<0>>, <<50>>, <<>>, <<50>>)
    /\ converter = NewConverter(config)
    /\ static = MeshA
    /\ last = NoCall

NextMain ==
    \/ \E step \in StepChoices, conversion_enabled \in BOOLEAN, verbose \in BOOLEAN :
          MainBegin(step, conversion_enabled, verbose)
    \/ \E result \in StepResults : MainStep("download", result)
    \/ \E result \in StepResults : MainStep("wps", result)
    \/ \E result \in StepResults : MainStep("init", result)
    \/ \E result \in StepResults : MainStep("boundary", result)
    \/ \E result \in StepResults : MainStep("run", result)
    \/ \E result \in StepResults : MainConvert(result)

SpecMain == InitMain /\ [][NextMain]_vars

\* Runs of run_model beside the cluster's handling of the job.
InitRunModel ==
    /\ config = Config(<<0>>, <<50>>, <<0>>, <<50>>, <<>>, <<50>>)
    /\ converter = NewConverter(config)
    /\ static = MeshA
    /\ last = NoCall

NextRunModel ==
    \/ \E backend \in Backends, files \in SUBSET {"diag"} : RunModelBegin(backend, files)
    \/ \E outcome \in {"ok", "failed", "raises"} : RunModelSetup(outcome)
    \/ \E sbatch \in SbatchResults : RunModelSubmit(sbatch)
    \/ \E outcome \in {"ok", "error", "raises"} : RunModelSqueue(outcome)
    \/ \E outcome \in {"ok", "empty", "raises"}, steps \in {<<>>, <<Completed>>} :
          RunModelSacct(outcome, steps)
    \/ \E ok \in BOOLEAN, written \in SUBSET OutputKinds : RunModelMpirun(ok, written)
    \/ RunModelOutputCheck
    \/ \E state \in ActiveStates \cup FinalStates : JobStep(state)
    \/ \E kind \in OutputKinds : JobWritesOutput(kind)
    \/ JobPurged

SpecRunModel == InitRunModel /\ [][NextRunModel]_vars

\* Downloads: one download_gfs_data call per output directory, every
\* response to every request.
InitDownload ==
    /\ config = Config(<<0>>, <<50>>, <<0>>, <<50>>, <<>>, <<50>>)
    /\ converter = NewConverter(config)
    /\ static = MeshA
    /\ last = NoCall

NextDownload ==
    \/ \E dir \in OutputDirs : DownloadBegin(dir)
    \/ DownloadSkip
    \/ \E response \in Responses : DownloadAttempt(response)
    \/ DownloadReturn

SpecDownload == InitDownload /\ [][NextDownload]_vars

\* Conversions whose slices are processed in any order.
InitSlices ==
    /\ config \in {Config(<<0>>, <<50>>, <<0>>, <<50>>, m, <<50>>) : m \in {<<>>, <<45>>}}
    /\ converter = NewConverter(config)
    /\ static \in {MeshA, MeshB}
    /\ last = NoCall

NextSlices ==
    \/ \E ds_diag \in SliceFiles : SlicesBegin(ds_diag)
    \/ \E sl \in (1..3) \X (1..MaxTimes) \X (0..MaxLevels) : ProcessSlice(sl)

SpecSlices == InitSlices /\ [][NextSlices]_vars

\* Static files in radians, read and indexed under a configuration that
\* sets no bound or the eastern bound only.
InitStatic ==
    /\ config \in {Config(<<>>, <<>>, <<>>, <<>>, <<>>, <<1>>),
                    Config(<<>>, <<>>, <<>>, <<180>>, <<>>, <<1>>)}
    /\ converter = NewConverter(config)
    /\ static = MeshA
    /\ last = NoCall

NextStatic ==
    /\ last.op = "none"
    /\ \E ds_static \in RadianStaticFiles : IndexStaticFile(ds_static)

SpecStatic == InitStatic /\ [][NextStatic]_vars

\* ------------------------------------------------------------------------
\* The latest call, as the properties read it

\* the weights artifact the latest call built and applied
W == last.out.interp_data

\* the latest call built weights
Built == last.op # "none" /\ W.ok

\* the grid points of the artifact, in the order of the query
GridPoints == DOMAIN W.indices

\* the max_dist_km in force for the latest call
MaxDistInForce ==
    IF last.op = "build" THEN last.args[3]
    ELSE ConfigGet(last.config, "max_dist_km", DefaultMaxDistKm)

\* a distance of square dsq is at most m: dsq <= m * m, without the product
WithinThreshold(dsq, m) ==
    \/ m = 0 /\ dsq = 0
    \/ m > 0 /\ (dsq + m - 1) \div m <= m

\* the spatial variables of the diagnostic file of the latest conversion
SpatialVars ==
    {v \in Range(last.args[1].vars) : "nCells" \in Range(v.dims) /\ v.name \notin SkipVars}

\* the length of a variable's mesh axis
CellAxisLen(v) == v.shape[CHOOSE a \in DOMAIN v.dims : v.dims[a] = "nCells"]

\* ------------------------------------------------------------------------
\* C4.  Building the spatial index over a static file with no cell fails:
\* the call ends with an exception no later than the construction of the
\* tree (a ValueError when the tree is what refuses), no neighbour query
\* is made and no weights exist.
C4_EmptyMeshFailsBeforeQuery ==
    (last.op # "none" /\ last.static = <<>>) =>
        /\ ~last.out.ret
        /\ last.out.stage \in {"bounds", "grid", "tree"}
        /\ last.out.stage = "tree" => last.out.error = "ValueError"
        /\ ~W.ok

\* the tree was asked to index no cell, and refused
C4_Witness ==
    last.op = "build" /\ last.static = <<>> /\ last.out.stage = "tree"

\* C5 as claimed: no grid, empty or not, is created from a resolution that
\* is zero or negative.
C5_NonPositiveResolutionRejected ==
    (last.op = "build" /\ converter.lat_resolution <= 0) => ~last.out.grid.ok

\* C6.  A grid point is valid exactly when its nearest neighbour is at
\* most max_dist_km away, equality included, whatever the distances of the
\* second and third neighbours; so a point at least as far from its
\* nearest cell as an invalid point is invalid too.
C6_ValidIffNearestWithinMaxDist ==
    Built =>
        /\ \A g \in GridPoints :
              W.valid_mask[g] = WithinThreshold(W.distances_km[g][1], MaxDistInForce)
        /\ \A g, h \in GridPoints :
              (W.distances_km[g][1] <= W.distances_km[h][1] /\ ~W.valid_mask[g])
                  => ~W.valid_mask[h]

\* a valid point whose nearest cell is exactly max_dist_km away and whose
\* second neighbour is farther than that, beside an invalid point
C6_Witness ==
    /\ Built
    /\ MaxDistInForce \in 1..100
    /\ \E g, h \in GridPoints :
          /\ W.valid_mask[g]
          /\ W.distances_km[g][1] = MaxDistInForce * MaxDistInForce
          /\ W.distances_km[g][2] > MaxDistInForce * MaxDistInForce
          /\ ~W.valid_mask[h]

\* C8.  The three normalized weights of every grid point, valid or not,
\* are strictly positive and sum to 1, zero distances included.
C8_WeightsPositiveSumToOne ==
    Built =>
        \A g \in GridPoints :
            /\ \A k \in 1..KNeighbors : W.weights[g].num[k] > 0
            /\ W.weights[g].den > 0
            /\ SumSeq(W.weights[g].num) = W.weights[g].den

\* a grid point on two coincident cells, beside an invalid point
C8_Witness ==
    /\ Built
    /\ \E g, h \in GridPoints :
          /\ W.distances_km[g][1] = 0
          /\ W.distances_km[g][2] = 0
          /\ ~W.valid_mask[h]

\* ------------------------------------------------------------------------
\* The gridded variables of the latest conversion

\* the flat grid point of row i, column j
PointOf(i, j) == (i - 1) * W.grid_shape[2] + j

Rows == 1..W.grid_shape[1]

Cols == 1..W.grid_shape[2]

\* the slices of a gridded variable: <<t>> without a level axis, <<t, lev>>
\* with one
SlicesOf(arr) ==
    IF Len(arr.shape) = 3 THEN {<<t>> : t \in 1..arr.shape[1]}
    ELSE (1..arr.shape[1]) \X (1..arr.shape[2])

\* element [i, j] of slice sl of a gridded variable
ElementOf(arr, sl, i, j) ==
    IF Len(sl) = 1 THEN arr.data[sl[1]][i][j] ELSE arr.data[sl[1]][sl[2]][i][j]

\* the input value of variable v at cell c in slice sl
InputOf(v, sl, c) ==
    IF Len(sl) = 1 THEN v.data[sl[1]][c] ELSE v.data[sl[1]][c][sl[2]]

\* the variable of the diagnostic file with the given name
VarNamed(name) == CHOOSE v \in SpatialVars : v.name = name

Converted == last.op = "convert" /\ W.ok

\* C1.  The weights a conversion applies are the weights of the mesh, the
\* grid bounds and the max_dist_km in force for that call: the grid has
\* the points of np.arange over the bounds in force, every grid point's
\* three neighbours are the three nearest cells of the mesh in force, in
\* ascending order with their distances to that point, the mask is the
\* threshold in force applied to the nearest distance, and the weights are
\* those of these distances.
LatMaxInForce ==
    ConfigGet(last.config, "lat_max", MaxOf({last.static[c][1] : c \in DOMAIN last.static}))

LonMaxInForce ==
    ConfigGet(last.config, "lon_max", MaxOf({last.static[c][2] : c \in DOMAIN last.static}))

\* n points lo, lo + step, ... are the points of np.arange(lo, hi + step, step)
IsArange(n, lo, hi, step) ==
    /\ n >= 1
    /\ lo + (n - 1) * step < hi + step
    /\ lo + n * step >= hi + step

C1_AppliedWeightsAreCurrent ==
    Converted =>
        LET lat_res == converter.lat_resolution
            lon_res == converter.lon_resolution
            lat_min == last.config.lat_min[1]
            lon_min == last.config.lon_min[1]
            mesh == last.static
        IN  /\ IsArange(W.grid_shape[1], lat_min, LatMaxInForce, lat_res)
            /\ IsArange(W.grid_shape[2], lon_min, LonMaxInForce, lon_res)
            /\ GridPoints = 1..(W.grid_shape[1] * W.grid_shape[2])
            /\ \A i \in Rows, j \in Cols :
                  LET g == PointOf(i, j)
                      p == <<lat_min + (i - 1) * lat_res, lon_min + (j - 1) * lon_res>>
                      idx == W.indices[g]
                  IN  /\ \A k \in 1..KNeighbors :
                            /\ idx[k] \in DOMAIN mesh
                            /\ W.distances_km[g][k] = DistSq(p, mesh[idx[k]])
                      /\ Cardinality(Range(idx)) = KNeighbors
                      /\ W.distances_km[g][1] <= W.distances_km[g][2]
                      /\ W.distances_km[g][2] <= W.distances_km[g][3]
                      /\ \A c \in DOMAIN mesh \ Range(idx) :
                            DistSq(p, mesh[c]) >= W.distances_km[g][3]
                      /\ W.valid_mask[g]
                            = WithinThreshold(W.distances_km[g][1], MaxDistInForce)
                      /\ W.weights[g]
                            = NormalizeWeights([k \in 1..KNeighbors |->
                                                   RawWeight(W.distances_km[g][k])])

\* a conversion after the grid bounds, the threshold and the static file
\* have all been changed from their initial values
C1_Witness ==
    /\ Converted
    /\ last.out.ret
    /\ last.config.lat_max = <<0>>
    /\ last.config.max_dist_km = <<0>>
    /\ last.static = MeshB
    /\ \E g \in GridPoints : ~W.valid_mask[g]

\* C2 as claimed: a field whose mesh axis is shorter or longer than the
\* mesh the weights were built on yields no gridded array.
C2_MismatchedFieldRejected ==
    Converted =>
        \A v \in SpatialVars :
            CellAxisLen(v) # Len(last.static) => v.name \notin DOMAIN last.out.data_dict

\* C3 as claimed: when the interpolation of one variable fails, the
\* variables of the file that interpolate without error are still written
\* to the output file.
C3_OtherVariablesStillWritten ==
    (Converted /\ last.out.stage = "variables") =>
        \A v \in SpatialVars :
            IndicesInRange(W, CellAxisLen(v)) =>
                /\ last.out.written.ok
                /\ v.name \in DOMAIN last.out.written.data_vars

\* C7.  In every slice (time step, level) of every gridded variable the
\* element of a grid point is the missing sentinel exactly when the point
\* is invalid, and otherwise the finite weighted sum of its three
\* neighbours' input values; and whether a conversion succeeds does not
\* depend on the threshold: it returns what it returns with every point
\* valid, even when every point is invalid.
C7_MaskedExactlyWhereInvalid ==
    Converted =>
        /\ \A name \in DOMAIN last.out.data_dict :
              LET arr == last.out.data_dict[name]
              IN  \A sl \in SlicesOf(arr), i \in Rows, j \in Cols :
                     LET g == PointOf(i, j)
                         e == ElementOf(arr, sl, i, j)
                     IN  /\ e.nan = ~W.valid_mask[g]
                         /\ W.valid_mask[g] =>
                               /\ e.den = W.weights[g].den
                               /\ e.den > 0
                               /\ e.num = SumSeq([k \in 1..KNeighbors |->
                                             InputOf(VarNamed(name), sl, W.indices[g][k])
                                             * W.weights[g].num[k]])
        /\ last.out.ret =
              ConvertDiagFile([last.config EXCEPT !.max_dist_km = <<>>],
                              converter.lat_resolution, converter.lon_resolution,
                              last.static, last.args[1], last.args[2]).ret

\* a successful conversion of a 3D variable none of whose grid points is valid
C7_Witness ==
    /\ Converted
    /\ last.out.ret
    /\ "theta" \in DOMAIN last.out.data_dict
    /\ Cardinality(GridPoints) > 1
    /\ \A g \in GridPoints : ~W.valid_mask[g]

\* C9.  A field with the same value at every cell is gridded to that value
\* at every valid grid point and to the missing sentinel at every invalid
\* one.
C9_ConstantFieldPreserved ==
    (Converted /\ "mslp" \in DOMAIN last.out.data_dict) =>
        LET arr == last.out.data_dict["mslp"]
        IN  \A sl \in SlicesOf(arr), i \in Rows, j \in Cols :
               LET e == ElementOf(arr, sl, i, j)
               IN  IF W.valid_mask[PointOf(i, j)]
                   THEN ~e.nan /\ e.num = MaxValue * e.den
                   ELSE e.nan

\* a constant field gridded over valid and invalid points
C9_Witness ==
    /\ Converted
    /\ "mslp" \in DOMAIN last.out.data_dict
    /\ \E g, h \in GridPoints : W.valid_mask[g] /\ ~W.valid_mask[h]

\* ------------------------------------------------------------------------
\* The cell a grid point lies on

\* the k-th normalized weight of grid point g exceeds 0.999: it is more
\* than 999 times the sum of the other two
Dominates(g, k) ==
    W.weights[g].num[k] > 999 * (W.weights[g].den - W.weights[g].num[k])

\* the gridded "t2m" of the latest conversion, when there is one
HasT2m == Converted /\ "t2m" \in DOMAIN last.out.data_dict

\* the input value of "t2m" at the k-th neighbour of grid point g
NeighbourValue(g, k, sl) == InputOf(VarNamed("t2m"), sl, W.indices[g][k])

\* C10 as claimed: at a grid point at distance 0 from a mesh cell, that
\* cell's normalized weight exceeds 0.999 and the gridded value is the
\* cell's value, wherever the other two neighbours are.
C10_CoincidentCellDominates ==
    Built =>
        \A i \in Rows, j \in Cols, k \in 1..KNeighbors :
            LET g == PointOf(i, j)
            IN  W.distances_km[g][k] = 0 =>
                   /\ Dominates(g, k)
                   /\ (HasT2m /\ W.valid_mask[g]) =>
                          \A sl \in SlicesOf(last.out.data_dict["t2m"]) :
                              LET e == ElementOf(last.out.data_dict["t2m"], sl, i, j)
                              IN  e.num = NeighbourValue(g, k, sl) * e.den

\* C10, amended.  At a grid point at distance 0 from a mesh cell whose
\* other two neighbours are each at least 45 cm (4.5e-4 km) away, that
\* cell's normalized weight exceeds 0.999, and the gridded value differs
\* from the cell's value by at most 0.001 times the largest difference
\* between the cell's value and the other two neighbours' values.
C10_CoincidentCellDominatesFarNeighbours ==
    Built =>
        \A i \in Rows, j \in Cols :
            LET g == PointOf(i, j)
            IN  (W.distances_km[g][1] = 0 /\ W.distances_km[g][2] >= 45 * 45) =>
                   /\ Dominates(g, 1)
                   /\ (HasT2m /\ W.valid_mask[g]) =>
                          \A sl \in SlicesOf(last.out.data_dict["t2m"]) :
                              LET e == ElementOf(last.out.data_dict["t2m"], sl, i, j)
                                  v0 == NeighbourValue(g, 1, sl)
                                  spread == MaxOf({Abs(NeighbourValue(g, k, sl) - v0) :
                                                      k \in 2..KNeighbors})
                              IN  /\ ~e.nan
                                  /\ 1000 * Abs(e.num - v0 * e.den) <= spread * e.den

\* a valid grid point on a cell whose other two neighbours are 45 cm and
\* 50 cm away and hold other values, gridded to a value that is not the
\* cell's
C10_Witness ==
    /\ HasT2m
    /\ \E i \in Rows, j \in Cols :
          LET g == PointOf(i, j)
              e == ElementOf(last.out.data_dict["t2m"], <<1>>, i, j)
          IN  /\ W.valid_mask[g]
              /\ W.distances_km[g][1] = 0
              /\ W.distances_km[g][2] = 45 * 45
              /\ W.distances_km[g][3] = 50 * 50
              /\ e.num # NeighbourValue(g, 1, <<1>>) * e.den

\* ------------------------------------------------------------------------
\* Shapes of the gridded variables

\* the lengths of the first rank axes of a nested array
RECURSIVE ActualShape(_, _)
ActualShape(data, rank) ==
    IF rank = 0 THEN <<>> ELSE <<Len(data)>> \o ActualShape(data[1], rank - 1)

\* (T, R, C) for a variable without a vertical dimension, (T, L, R, C) with
\* one, L being the variable's own level size
ShapeOfTimes(v, T) ==
    IF HasVertical(v) THEN <<T, VertDimSize(v)>> \o W.grid_shape
    ELSE <<T>> \o W.grid_shape

\* the shape of the contract: T is the variable's own time size
ContractShape(v) == ShapeOfTimes(v, v.shape[1])

\* every spatial variable of the file has as many cells as the mesh
AllFieldsOnMesh == \A v \in SpatialVars : CellAxisLen(v) = Len(last.static)

\* variable v is gridded, to an array of the given shape
GriddedToShape(v, shape) ==
    /\ v.name \in DOMAIN last.out.data_dict
    /\ last.out.data_dict[v.name].shape = shape
    /\ ActualShape(last.out.data_dict[v.name].data, Len(shape)) = shape

\* variable v is gridded, to an array of the contract's shape
GriddedToContractShape(v) == GriddedToShape(v, ContractShape(v))

CellsBeforeLevels(v) ==
    \A a, b \in DOMAIN v.dims :
        (v.dims[a] = "nCells" /\ v.dims[b] \in Range(VerticalDims)) => a < b

\* every spatial variable of the file has a time axis: its shape is (T, N)
\* or (T, N, L)
AllFieldsHaveTime == \A v \in SpatialVars : "Time" \in Range(v.dims)

\* the file carries its time stamps: an xtime variable or a Time coordinate
HasTimeStamps ==
    \/ \E v \in Range(last.args[1].vars) : v.name = "xtime"
    \/ last.args[1].time_coord

Written == last.out.written

\* the input value of variable v at time step t, level lev and cell c,
\* wherever the variable keeps its level axis
ValueAt(v, t, lev, c) ==
    IF ~HasVertical(v) THEN v.data[t][c]
    ELSE IF CellsBeforeLevels(v) THEN v.data[t][c][lev]
    ELSE v.data[t][lev][c]

\* the interpolation of slice (t, lev) of variable v at the point p: the
\* weighted sum over the three cells of the mesh nearest to p, or the
\* missing sentinel when the nearest is farther than max_dist_km
InterpolationAt(v, t, lev, p, idx) ==
    IF WithinThreshold(DistSq(p, last.static[idx[1]]), MaxDistInForce)
    THEN Finite(SumSeq([k \in 1..KNeighbors |->
                    ValueAt(v, t, lev, idx[k])
                    * NormalizeWeights([n \in 1..KNeighbors |->
                          RawWeight(DistSq(p, last.static[idx[n]]))]).num[k]]),
                NormalizeWeights([n \in 1..KNeighbors |->
                    RawWeight(DistSq(p, last.static[idx[n]]))]).den)
    ELSE NaN

\* variable v is written with axes (time, [level,] lat, lon), and its
\* element [t, l, i, j] is the interpolation of slice (t, l) at the point
\* of the i-th reported latitude and the j-th reported longitude
WrittenAtReportedPoints(v) ==
    LET arr == Written.data_vars[v.name]
        nlat == Len(Written.lat)
        nlon == Len(Written.lon)
    IN  /\ Written.dims[v.name] = IF HasVertical(v)
                                   THEN <<"time", "level", "lat", "lon">>
                                   ELSE <<"time", "lat", "lon">>
        /\ arr.shape = IF HasVertical(v)
                       THEN <<Written.time, VertDimSize(v), nlat, nlon>>
                       ELSE <<Written.time, nlat, nlon>>
        /\ \A sl \in SlicesOf(arr), i \in 1..nlat, j \in 1..nlon :
              ElementOf(arr, sl, i, j)
                 = InterpolationAt(v, sl[1], IF Len(sl) = 1 THEN 0 ELSE sl[2],
                       <<Written.lat[i], Written.lon[j]>>,
                       NearestFrom(<<Written.lat[i], Written.lon[j]>>, last.static,
                                   KNeighbors))

\* C12 as claimed: every converted variable has axes (time, [level,] lat,
\* lon) and holds at [t, l, i, j] the interpolation of input slice (t, l)
\* at the point of the i-th reported latitude and j-th reported longitude.
C12_AxisOrderAndGridPoints ==
    (last.op = "convert" /\ Written.ok) =>
        \A v \in SpatialVars : WrittenAtReportedPoints(v)

\* C12, amended.  The same, for every converted variable whose mesh axis
\* comes before its level axis.
C12_AxisOrderAndGridPointsCellsBeforeLevels ==
    (last.op = "convert" /\ Written.ok) =>
        \A v \in SpatialVars : CellsBeforeLevels(v) => WrittenAtReportedPoints(v)

\* a 3D variable written over a grid of two rows and two columns, whose
\* element at row 1, column 2 is not its element at row 2, column 1
C12_Witness ==
    /\ last.op = "convert"
    /\ Written.ok
    /\ "theta" \in DOMAIN Written.data_vars
    /\ Written.data_vars["theta"].shape = <<MaxTimes, MaxLevels, 2, 2>>
    /\ Written.data_vars["theta"].data[1][1][1][2]
          # Written.data_vars["theta"].data[1][1][2][1]

\* ------------------------------------------------------------------------
\* Batches

\* the latest call, a convert_all_diag_files call
Batch == last.out

\* the variable of a dataset with the given name
VarOf(ds, name) == CHOOSE v \in Range(ds.vars) : v.name = name

\* every element of every variable a call gridded from dataset ds is what
\* the weights of that call give: the weighted sum over its indices, masked
\* by its validity flags
AppliedOwnWeights(call, ds) ==
    \A name \in DOMAIN call.data_dict :
        \A sl \in SlicesOf(call.data_dict[name]),
           i \in 1..call.interp_data.grid_shape[1],
           j \in 1..call.interp_data.grid_shape[2] :
            ElementOf(call.data_dict[name], sl, i, j)
               = InterpolatePoint(call.interp_data,
                     FlatIndex(call.interp_data.grid_shape, i, j),
                     [k \in 1..KNeighbors |->
                         InputOf(VarOf(ds, name), sl,
                                 call.interp_data.indices[
                                     FlatIndex(call.interp_data.grid_shape, i, j)][k])])

\* the calls of the batch all built the same weights and applied them
SameWeightsApplied ==
    /\ \A m, n \in DOMAIN Batch.calls :
          Batch.calls[m].interp_data = Batch.calls[n].interp_data
    /\ \A n \in DOMAIN Batch.calls :
          /\ Batch.calls[n].interp_data.ok
          /\ AppliedOwnWeights(Batch.calls[n],
                               DiagDataset(last.args[1], Batch.diag_files[n]))

\* C13 as claimed: over the diag files of one batch, which share the static
\* file and the grid configuration, the neighbour query and the weight
\* computation run once, and every variable of every file is interpolated
\* with those weights.
C13_WeightsOncePerBatch ==
    (last.op = "batch" /\ last.static # <<>>) =>
        /\ Batch.queries <= 1
        /\ SameWeightsApplied

\* C13, amended.  The neighbour query and the weight computation run once
\* in every convert_diag_file call, so once for each diag file of a batch;
\* the calls of a batch that shares one static file and one grid
\* configuration build equal weights, and every variable, time step and
\* level of a file is interpolated with the weights of that file's call.
C13_WeightsOncePerFile ==
    (last.op = "batch" /\ last.static # <<>>) =>
        /\ Batch.queries = Len(Batch.diag_files)
        /\ SameWeightsApplied

\* a batch of three diag files, the last of them with a 3D variable, all
\* converted
C13_Witness ==
    /\ last.op = "batch"
    /\ Batch.ret
    /\ Len(Batch.diag_files) = 3
    /\ "theta" \in DOMAIN Batch.calls[3].data_dict
    /\ \E g \in DOMAIN Batch.calls[3].interp_data.valid_mask :
          ~Batch.calls[3].interp_data.valid_mask[g]

\* ------------------------------------------------------------------------
\* The coordinates handed to the spatial index

\* the angle, a fraction of pi, lies in (-pi, pi]
IsNormalizedLongitude(rad) == -rad.den < rad.num /\ rad.num <= rad.den

\* the angle lies in [-pi/2, pi/2]
IsLatitude(rad) == -rad.den <= 2 * rad.num /\ 2 * rad.num <= rad.den

\* C14 as claimed: every longitude handed to the spatial index lies in
\* (-180, 180] and every latitude in [-90, 90], and the grid bounds derived
\* from the cells' coordinates lie in these ranges too.
C14_CoordinatesNormalized ==
    last.op = "index" =>
        /\ \A c \in DOMAIN last.out.mpas_coords :
              /\ IsLatitude(last.out.mpas_coords[c][1])
              /\ IsNormalizedLongitude(last.out.mpas_coords[c][2])
        /\ \A n \in 1..2 :
              /\ -90 <= last.out.bounds.lat_bounds[n]
              /\ last.out.bounds.lat_bounds[n] <= 90
              /\ -180 < last.out.bounds.lon_bounds[n]
              /\ last.out.bounds.lon_bounds[n] <= 180

\* ------------------------------------------------------------------------
\* Classification of the variables of the latest conversion's file

\* the variables of the file, by position
FileVars == last.args[1].vars

\* the positions the two detections select
Selected3d == Range(Detect3dVariables(last.args[1]))

Selected2d == Range(Detect2dVariables(last.args[1]))

\* a successful conversion gridded the selected variables and no other,
\* the 3D ones with a level axis and the 2D ones without
GriddedAsClassified ==
    last.out.ret =>
        /\ DOMAIN last.out.data_dict = {FileVars[n].name : n \in Selected3d \cup Selected2d}
        /\ \A n \in Selected3d : Len(last.out.data_dict[FileVars[n].name].shape) = 4
        /\ \A n \in Selected2d : Len(last.out.data_dict[FileVars[n].name].shape) = 3

\* C15 as claimed: a variable is selected only if nCells is among its
\* dimensions, as 3D exactly when it also has a recognised vertical
\* dimension and as 2D otherwise, whatever its name; no variable is in both
\* lists.
C15_ClassifiedByDimensionNames ==
    last.op = "convert" =>
        /\ \A n \in DOMAIN FileVars :
              /\ n \in Selected3d <=>
                    ("nCells" \in Range(FileVars[n].dims) /\ HasVertical(FileVars[n]))
              /\ n \in Selected2d <=>
                    ("nCells" \in Range(FileVars[n].dims) /\ ~HasVertical(FileVars[n]))
        /\ Selected3d \cap Selected2d = {}
        /\ GriddedAsClassified

\* C15, amended.  The same, except that a variable named xtime or
\* initial_time is never selected as 2D.
C15_ClassifiedByDimensionNamesExceptSkipped ==
    last.op = "convert" =>
        /\ \A n \in DOMAIN FileVars :
              /\ n \in Selected3d <=>
                    ("nCells" \in Range(FileVars[n].dims) /\ HasVertical(FileVars[n]))
              /\ n \in Selected2d <=>
                    /\ "nCells" \in Range(FileVars[n].dims)
                    /\ ~HasVertical(FileVars[n])
                    /\ FileVars[n].name \notin {"xtime", "initial_time"}
        /\ Selected3d \cap Selected2d = {}
        /\ GriddedAsClassified

\* a variable over soil levels gridded with a level axis beside a 2D one
C15_Witness ==
    /\ last.op = "convert"
    /\ last.out.ret
    /\ DOMAIN last.out.data_dict = {"tslb", "mslp"}
    /\ Len(last.out.data_dict["tslb"].shape) = 4
    /\ Len(last.out.data_dict["mslp"].shape) = 3

\* ------------------------------------------------------------------------
\* The frame of an application of weights

\* the buffers of the artifact and of the input field
InputBuffers ==
    {last.out.interp_ref.indices, last.out.interp_ref.distances_km,
     last.out.interp_ref.weights, last.out.interp_ref.valid_mask, last.out.data_ref}

\* an application left the input buffers as they were and returned a buffer
\* that did not exist before it
LeavesInputs(before, call) ==
    /\ \A b \in InputBuffers : call.memory[b] = before[b]
    /\ call.ok => call.ret \notin DOMAIN before

\* C16: applying weights to a field leaves the artifact's indices,
\* distances, weights, validity mask and grid shape and the input field
\* unchanged and returns a newly created array; a second application of
\* the same weights to the same field gives the same result as the first.
C16_ApplicationLeavesInputs ==
    last.op = "apply" =>
        /\ LeavesInputs(last.out.memory, last.out.first)
        /\ LeavesInputs(last.out.first.memory, last.out.second)
        /\ last.out.second.ok = last.out.first.ok
        /\ last.out.second.error = last.out.first.error
        /\ last.out.first.ok =>
              /\ last.out.second.ret # last.out.first.ret
              /\ last.out.second.memory[last.out.second.ret]
                    = last.out.first.memory[last.out.first.ret]
              /\ last.out.second.memory[last.out.first.ret]
                    = last.out.first.memory[last.out.first.ret]

\* a field with levels was gridded twice, some point masked and some not
C16_Witness ==
    /\ last.op = "apply"
    /\ last.out.first.ok
    /\ last.out.second.ok
    /\ Len(last.args[1].shape) = 2
    /\ \E g, h \in DOMAIN last.out.memory[4] :
          last.out.memory[4][g] /\ ~last.out.memory[4][h]

\* ------------------------------------------------------------------------
\* The loop of a batch over the files of the run directory

\* the stamps of the diag files of the latest batch's run directory
DiagStamps == {e.stamp : e \in {d \in last.args[1] : d.stem = "diag"}}

\* the conversion of the n-th attempted file under the batch's static file
\* and configuration
ConversionOf(n) ==
    ConvertDiagFile(last.config, converter.lat_resolution, converter.lon_resolution,
                    last.static, DiagDataset(last.args[1], Batch.diag_files[n]), TRUE)

\* C17: convert_all_diag_files attempts every diag file of the run directory
\* in sorted name order, goes on to the next file after a file fails, and
\* returns True exactly when there is a file and every file was converted.
C17_EveryFileAttemptedInOrder ==
    last.op = "batch" =>
        /\ Range(Batch.diag_files) = DiagStamps
        /\ \A m, n \in DOMAIN Batch.diag_files :
              m < n => Batch.diag_files[m] < Batch.diag_files[n]
        /\ DOMAIN Batch.calls = DOMAIN Batch.diag_files
        /\ \A n \in DOMAIN Batch.calls : Batch.calls[n] = ConversionOf(n)
        /\ Batch.ret <=>
              /\ DiagStamps # {}
              /\ \A n \in DOMAIN Batch.diag_files : ConversionOf(n).ret
        /\ Batch.failed_files # <<>> => ~Batch.ret

\* a batch of MaxFiles files whose first file failed and whose later files
\* were converted
C17_Witness ==
    /\ last.op = "batch"
    /\ Len(Batch.calls) = MaxFiles
    /\ ~Batch.calls[1].ret
    /\ \A n \in 2..MaxFiles : Batch.calls[n].ret
    /\ ~Batch.ret

\* ------------------------------------------------------------------------
\* The order of the steps of main

Main == last.out

\* C18: with --step all the steps start in the order download, wps, init,
\* boundary, run, convert; a step starts only after the step before it
\* returned success; when one of the first five steps returns failure the
\* process exits with status 1 and no later step is started.
C18_StepsInOrderStopAtFailure ==
    (last.op = "main" /\ last.args[1] = "all") =>
        /\ Len(Main.started) <= Len(PipelineOrder)
        /\ Main.started = SubSeq(PipelineOrder, 1, Len(Main.started))
        /\ \A n \in DOMAIN Main.started : n > 1 => Main.returns[n - 1] = "True"
        /\ \A n \in DOMAIN Main.returns :
              (n <= 5 /\ Main.returns[n] = "False") =>
                  /\ Main.exit = 1
                  /\ Len(Main.started) = n
        /\ Main.exit = 0 => \A n \in 1..5 : Main.returns[n] = "True"

\* the run step returned failure after four successful steps and the
\* process exited with status 1
C18_Witness ==
    /\ last.op = "main"
    /\ last.args[1] = "all"
    /\ Main.started = SubSeq(PipelineOrder, 1, 5)
    /\ Main.returns = <<"True", "True", "True", "True", "False">>
    /\ Main.exit = 1

\* ------------------------------------------------------------------------
\* run_model with the slurm backend

RunModel == last.out

\* C19: with the slurm backend run_model returns True only after the job it
\* submitted has left the queue in a final accounting state that contains
\* COMPLETED and a diag or history file exists in the run directory; it has
\* returned False once the submission failed, once no job ID was parsed
\* from sbatch's output, and once the final status read is anything else.
C19_TrueOnlyAfterCompletedJob ==
    (last.op = "run_model" /\ RunModel.backend = "slurm") =>
        /\ RunModel.ret = "True" =>
              /\ RunModel.job.state \notin ActiveStates
              /\ Contains(Completed, RunModel.job.state)
              /\ RunModel.files # {}
        /\ (RunModel.submitted /\ ~RunModel.submit.success) => RunModel.ret = "False"
        /\ (RunModel.submitted /\ RunModel.submit.job_id = "") => RunModel.ret = "False"
        /\ (RunModel.final_status # <<"unread">>
              /\ ~Contains(Completed, RunModel.final_status)) => RunModel.ret = "False"

\* run_model returned True for a job that completed and wrote a diag file
\* into a run directory that held none
C19_Witness ==
    /\ last.op = "run_model"
    /\ RunModel.backend = "slurm"
    /\ last.args[2] = {}
    /\ RunModel.ret = "True"
    /\ RunModel.job.state = Completed
    /\ "diag" \in RunModel.files

\* ------------------------------------------------------------------------
\* download_gfs_data and verify_downloads

Download == last.out

\* C20: whenever download_gfs_data returns True every expected file exists
\* in the output directory with size > 0 and verify_downloads on that
\* directory returns an empty list; a file that was present with size > 0
\* is never requested.
C20_TrueImpliesFilesPresent ==
    last.op = "download" =>
        /\ Download.ret = "True" =>
              /\ \A f \in DOMAIN Download.dir : Download.dir[f] > 0
              /\ Download.missing = <<>>
        /\ \A f \in DOMAIN Download.dir :
              last.args[1][f] > 0 => Download.requests[f] = 0

\* ------------------------------------------------------------------------
\* The slices of a conversion, in any order

Slices == last.out

\* the gridded array the loops of the code give for the n-th variable
SequentialArray(n) ==
    IF n \in Range(Detect3dVariables(last.args[1]))
    THEN Convert3dVariable(Slices.interp_data, last.args[1].vars[n], NTimes(last.args[1]))
    ELSE Convert2dVariable(Slices.interp_data, last.args[1].vars[n], NTimes(last.args[1]))

\* the written elements of the n-th variable hold the values of the array
WrittenAgree(arr, n) ==
    \A e \in DOMAIN Slices.writes :
        (e[1] = n /\ Slices.writes[e] = 1) =>
            Slices.data_grid[e] = IF e[3] = 0 THEN arr.data[e[2]][e[4]][e[5]]
                                  ELSE arr.data[e[2]][e[3]][e[4]][e[5]]

\* C21: the slices of a conversion leave the shared weights as they were
\* built; each slice writes its own region [t, level, :, :] only, so that
\* no output element is written twice and, once every slice is done, every
\* element was written exactly once; the result is that of the conversion
\* in the order of the code, whatever the order of the slices.
C21_SlicesIndependent ==
    last.op = "slices" =>
        /\ Slices.interp_data = InterpDataForCall(last.config, converter.lat_resolution,
                                                  converter.lon_resolution,
                                                  last.static).interp_data
        /\ \A e \in DOMAIN Slices.writes :
              /\ Slices.writes[e] <= 1
              /\ Slices.writes[e] = 1 <=> <<e[1], e[2], e[3]>> \in Slices.done
        /\ \A n \in {sl[1] : sl \in ConversionSlices(last.args[1])} :
              WrittenAgree(SequentialArray(n), n)
        /\ Slices.done = ConversionSlices(last.args[1]) =>
              \A e \in DOMAIN Slices.writes : Slices.writes[e] = 1

\* every slice is done, the last level of the last time step among them,
\* with a masked grid point and a valid one
C21_Witness ==
    /\ last.op = "slices"
    /\ Slices.done = ConversionSlices(last.args[1])
    /\ <<2, MaxTimes, MaxLevels>> \in Slices.done
    /\ \E g, h \in DOMAIN Slices.interp_data.valid_mask :
          Slices.interp_data.valid_mask[g] /\ ~Slices.interp_data.valid_mask[h]

\* ------------------------------------------------------------------------
\* The attempts of _download_file

\* the files _download_file was called for and has returned for
Finished(f) == f < Download.i /\ Download.attempts[f] # <<>>

\* C22: _download_file makes at most max_retries + 1 attempts; it returns
\* True at the first attempt whose file size equals the announced
\* content-length, and makes no attempt after it; after the failed attempt
\* number a (from 0) it waits 2^a seconds, except after the last one; when
\* it returned False no file is at the target path.
C22_AttemptsWaitsAndCleanup ==
    last.op = "download" =>
        \A f \in DOMAIN Download.dir :
            /\ Len(Download.attempts[f]) <= MaxRetries + 1
            /\ \A k \in DOMAIN Download.attempts[f] :
                  /\ Download.attempts[f][k].verified => k = Len(Download.attempts[f])
                  /\ Download.attempts[f][k].slept =
                        IF Download.attempts[f][k].verified \/ k = MaxRetries + 1
                        THEN 0 ELSE 2 ^ (k - 1)
            /\ Finished(f) =>
                  /\ f \in Range(Download.failed_files) <=>
                        ~Download.attempts[f][Len(Download.attempts[f])].verified
                  /\ f \in Range(Download.failed_files) =>
                        /\ Len(Download.attempts[f]) = MaxRetries + 1
                        /\ Download.dir[f] = -1

\* an empty file was at the target path, every attempt failed and
\* _download_file returned False; the next file arrived at the third attempt
C22_Witness ==
    /\ last.op = "download"
    /\ Download.pc = "returned"
    /\ last.args[1] = <<0, -1>>
    /\ Download.failed_files = <<1>>
    /\ Download.dir[1] = -1
    /\ Len(Download.attempts[2]) = 3
    /\ Download.attempts[2][3].verified
    /\ Download.dir[2] = MaxBytes

\* ------------------------------------------------------------------------
\* The time steps of the variables selected as 2D

\* C23: every variable that _detect_2d_variables selects has the nCells
\* dimension and the Time dimension, and every time step of it can be
\* taken without error.
C23_Selected2dHaveTime ==
    last.op = "convert" =>
        \A n \in Selected2d :
            /\ "nCells" \in Range(FileVars[n].dims)
            /\ "Time" \in Range(FileVars[n].dims)
            /\ \A t \in 1..last.args[1].n_times : IselTime(FileVars[n], t).ok

\* ------------------------------------------------------------------------
\* The end of main

\* C24: main reaches its final message 'PIPELINE COMPLETED SUCCESSFULLY'
\* and ends with exit status 0 only if every step it ran returned success,
\* the conversion step included.
C24_SuccessOnlyIfEveryStepSucceeded ==
    (last.op = "main" /\ Main.exit = 0) =>
        \A n \in DOMAIN Main.returns : Main.returns[n] = "True"

\* ------------------------------------------------------------------------
\* The level coordinate of the dataset

\* every selected variable of the file was gridded
AllVariablesGridded ==
    /\ last.op = "convert"
    /\ DOMAIN last.out.data_dict = {FileVars[n].name : n \in Selected3d \cup Selected2d}

\* C25: for every file whose variables are gridded, 3D variables over
\* vertical dimensions of different sizes included, convert_diag_file builds
\* a dataset whose level coordinate is as long as the level axis of every
\* 3D variable.
C25_LevelCoordinateFitsEvery3dVariable ==
    (AllVariablesGridded /\ Selected3d # {}) =>
        /\ Written.ok
        /\ \A n \in Selected3d :
              Written.data_vars[FileVars[n].name].shape[2] = Len(Written.level[1])

\* ------------------------------------------------------------------------
\* The datasets a conversion opened

\* C26: every dataset that convert_diag_file opened is closed when it
\* returns, on every path: conversion done, save failed, no spatial
\* variable found, exception caught.
C26_DatasetsClosedOnReturn ==
    last.op = "convert" => last.out.open = {}

=============================================================================
